---- MODULE Spec2Model ----
(***************************************************************************)
(* A model of the finn desktop daemon's coordination engine:               *)
(*   - the durable configuration (approved folders),                       *)
(*   - the session-log watcher (notify handler, poller, debounce timers),  *)
(*   - the message router with its conversation store and coder executors, *)
(*   - the control-channel transport (pumps, single-flight reconnect),     *)
(*   - the reverse HTTP tunnel (read loop, request handlers).              *)
(*   - the dev-server manager of the preview (Start, monitor, Stop).       *)
(* Each subsystem has its own specification; the variables of the other    *)
(* subsystems stay at their initial values under it.                       *)
(***************************************************************************)
EXTENDS Integers, Sequences, FiniteSets, TLC

(***************************************************************************)
(* Bounds of the model.                                                    *)
(***************************************************************************)
MaxFolderId == 2     \* folder ids ever generated (uuid.New is fresh each time)
MaxFileLen == 2      \* writes ever appended to a session log
MaxTimers == 3       \* debounce timers ever created
MaxGen == 3          \* pump contexts ever created by the control channel
MaxReqs == 2         \* requests the relay writes to the tunnel
MaxTunConns == 2     \* tunnel sockets ever dialled
MaxTurns == 2        \* coder runs of the conversation
MaxServers == 3      \* server objects ever created by the dev-server manager
MaxConfigAdds == 2   \* folders ever appended by direct calls of Config.AddFolder
MaxPaths == 6        \* folder paths the user picks from
MaxPathLen == 4      \* characters of a folder path

(***************************************************************************)
(* Folder paths are strings of characters, so that the log-directory       *)
(* encoding is computed as the code computes it.                           *)
(***************************************************************************)
PathA == <<"/", "a">>
Paths == {PathA}

\* strings.ReplaceAll(path, "/", "-")
EncodeProjectPath(path) ==
    [i \in 1..Len(path) |-> IF path[i] = "/" THEN "-" ELSE path[i]]

\* strip one leading '-', then "/" + ReplaceAll(encoded, "-", "/")
decodeProjectPath(encoded) ==
    LET e == IF Len(encoded) > 0 /\ encoded[1] = "-" THEN Tail(encoded) ELSE encoded
    IN  <<"/">> \o [i \in 1..Len(e) |-> IF e[i] = "-" THEN "/" ELSE e[i]]

\* The session logs of the model: one log, in the log directory of PathA.
LogFiles == {"s1"}
LogDirOf(f) == EncodeProjectPath(PathA)

\* extractSessionID: the file's base name without its extension; the model
\* names a log by its session id.
extractSessionID(f) == f

VARIABLES
    \* ---- configuration (config.Config)
    approvedFolders,   \* sequence of [id, path]
    selectedFolderID,  \* 0 when empty
    subscription,      \* [MaxFolders, Active]
    nextFolderId,      \* the next fresh folder id
    cfgErr,            \* the error of the last Config call that returns one
    \* ---- session-log files on disk and the kernel-notify queue
    logContent,        \* f -> sequence of writes: "m", "c" or "nl"
    fsEvents,          \* files with a pending Write event
    \* ---- watcher.Watcher
    sessions,          \* f -> [exists, ProjectPath, MessageCount]
    filePositions,     \* f -> offset, -1 when the file is not tracked
    pendingUpdates,    \* sessions with a pending update
    updateTimers,      \* f -> id of the timer in the map, 0 when none
    timers,            \* live timer objects [id, sid, left, fired, stale, late]
    nextTimer,         \* the next fresh timer id
    rd,                \* g -> the readNewLines call of goroutine g
    pollPhase,         \* position of pollForChanges
    pollSnap,          \* the poller's copy of filePositions
    pollTodo,          \* files of the copy not yet checked
    \* ---- observations of the watcher
    sinceUpdate,       \* f -> ticks since the last scheduleSessionUpdate, capped
    droppedAt,         \* f -> size of f when its folder was dropped, -1 while approved
    \* ---- control channel (websocket.Client)
    ctlClosed,         \* the client's main context is cancelled
    wsConn,            \* the conn field: id of the current socket, 0 when nil
    liveConns,         \* sockets that are open and whose network path works
    connected,         \* the connected flag
    reconnecting,      \* the reconnecting flag
    pumpGen,           \* the pumpCtx field: its generation, 0 when nil
    cancelledGens,     \* pump contexts that were cancelled
    pumpWg,            \* the pump WaitGroup counter
    pumps,             \* running pump goroutines [kind, id, pc, ctx, conn]
    cpc,               \* position of each goroutine that connects
    connMu,            \* holder of connMu, "free" when unlocked
    closePc,           \* position of Close()
    senders,           \* s -> the SendMessage call of task s: [pc, conn, disc]
    \* ---- preview tunnel (tunnel.Client)
    tunConn,           \* the conn field: id of the current socket, 0 when nil
    tunLive,           \* tunnel sockets that are open and work
    tunClosed,         \* reconnectCtx is cancelled
    tunReader,         \* the readPump goroutine: [pc, attempt]
    tunState,          \* the state field
    tunInbox,          \* requests written by the relay and not yet read
    tunHandlers,       \* handleRequest goroutines [id, pc, toSend]
    tunRecv,           \* request id -> socket it was read from, 0 before
    tunOut,            \* request id -> responses written to a socket
    nextReq,           \* next request id of the relay
    nextTunConn,       \* next tunnel socket id
    tunCallback,       \* the setState call of the last step: [state, attempt]
    tunWaited,         \* seconds handleDisconnect waited before the dial of the
                       \* last step, 0 when the step dialled nothing
    tunClosePc,        \* position of the tunnel's Close(): "off", "wait" or "done"
    \* ---- agent: one conversation and its executor
    interactiveMode,   \* cfg.ExecutionMode.InteractiveMode
    hasState,          \* conversationStates holds the conversation
    stFolderPath,      \* state.folderPath
    stFolderID,        \* state.folderID
    pendingDiffs,      \* state.pendingDiffs: key -> "absent", "false" or "true"
    totalDiffs,        \* state.totalDiffs
    stFiles,           \* state.files
    exec,              \* the executor goroutine [kind, pc, path, filesBeforeExec,
                       \* turnCompleted]
    changedFiles,      \* files of the folder with pending changes
    diffOf,            \* file -> what GenerateDiff returns for it
    turns,             \* coder runs so far, started by a prompt, a reprompt
                       \* or a choice
    turnDiff,          \* files of the diff event of the current turn
    lastOp,            \* what the last handler did: a commit, a discard, a
                       \* coder run or an error reply
    mapUse,            \* task -> the operation on conversationStates, or on a
                       \* state's pendingDiffs, that the task is in the middle of
    curReader,         \* the streamOutput goroutine of the interactive executor
                       \* the agent holds for the conversation is running
    replaced,          \* number of interactive executors the agent has replaced
                       \* and whose streamOutput goroutine is running
    errored,           \* the coder of the executor the agent holds has sent an
                       \* error message
    emitted,           \* the events the last step sent through the event
                       \* callback of the conversation
    \* ---- dev servers (devserver.Manager), for the folder of the preview
    dsEntry,           \* m.servers[folder]: the server stored, 0 when none
    dsState,           \* server -> its State field, "none" before it exists
    dsChildren,        \* servers whose child process is alive
    dsStart,           \* caller -> position of its Start call and the server
                       \* it spawned or was handed
    dsMon,             \* server -> position of its monitorProcess goroutine
    nextServer,        \* the next fresh server object
    stopCall,          \* the Stop call in progress: its position and server
    dsOut,             \* what the last step of the supervisor let out: a call
                       \* of the state-change callback or a signal to a child
    \* ---- client presence and the messages it gates
    mobileOnline,      \* a mobile client is online
    webOnline,         \* a web client is online
    notifier,          \* watcher callback -> its position: "idle" or "send"
    lastSent           \* the request just handled and the message just sent

cfgVars == <<approvedFolders, selectedFolderID, subscription, nextFolderId, cfgErr>>
fsVars == <<logContent, fsEvents>>
indexVars == <<sessions, filePositions, pendingUpdates, updateTimers, timers, nextTimer>>
pollVars == <<pollPhase, pollSnap, pollTodo>>
obsWatcherVars == <<sinceUpdate, droppedAt>>
watcherVars == <<fsVars, indexVars, rd, pollVars, obsWatcherVars>>
streamVars == <<curReader, replaced, errored, emitted>>
agentVars == <<interactiveMode, hasState, stFolderPath, stFolderID, pendingDiffs,
              totalDiffs, stFiles, exec, changedFiles, diffOf, turns, turnDiff,
              lastOp, mapUse, streamVars>>
ctlVars == <<ctlClosed, wsConn, liveConns, connected, reconnecting, pumpGen,
            cancelledGens, pumpWg, pumps, cpc, connMu, closePc, senders>>
tunVars == <<tunConn, tunLive, tunClosed, tunReader, tunState, tunInbox, tunHandlers,
            tunRecv, tunOut, nextReq, nextTunConn, tunCallback, tunWaited,
            tunClosePc>>
devVars == <<dsEntry, dsState, dsChildren, dsStart, dsMon, nextServer, stopCall, dsOut>>
presenceVars == <<mobileOnline, webOnline, notifier, lastSent>>
notWatcher == <<agentVars, ctlVars, tunVars, devVars, presenceVars>>
vars == <<cfgVars, devVars, presenceVars, watcherVars, agentVars, ctlVars, tunVars>>

Range(s) == {s[i] : i \in 1..Len(s)}

RECURSIVE SeqFilter(_, _)
SeqFilter(s, keep) ==
    IF s = <<>> THEN <<>>
    ELSE (IF Head(s) \in keep THEN <<Head(s)>> ELSE <<>>) \o SeqFilter(Tail(s), keep)

(***************************************************************************)
(* Configuration.                                                          *)
(***************************************************************************)
TierStandardMaxFolders == 5

ApprovedPaths == {fo.path : fo \in Range(approvedFolders)}
ApprovedIds == {fo.id : fo \in Range(approvedFolders)}

\* Config.IsFolderApproved, and the watcher's ShouldWatchProject filter
IsFolderApproved(path) == path \in ApprovedPaths

\* the lookup loop of the handlers: the path of folder id, <<>> when absent
FolderPathOf(id) ==
    IF id \in ApprovedIds
    THEN (CHOOSE fo \in Range(approvedFolders) : fo.id = id).path
    ELSE <<>>

\* CanAddFolder without its comparison with MaxFolders
CanAddFolderNoLimit(currentFolderCount) ==
    subscription.Active

\* Subscription.CanAddFolder
CanAddFolder(currentFolderCount) ==
    subscription.Active /\ currentFolderCount < subscription.MaxFolders

\* Config.AddFolder: the folder list afterwards (unchanged when the path is
\* already approved or the limit is reached)
AddFolder(path) ==
    IF path \in ApprovedPaths THEN approvedFolders
    ELSE IF ~CanAddFolder(Len(approvedFolders)) THEN approvedFolders
    ELSE Append(approvedFolders, [id |-> nextFolderId, path |-> path])

AddFolderFails(path) ==
    path \notin ApprovedPaths /\ ~CanAddFolder(Len(approvedFolders))

AddFolderAppends(path) ==
    path \notin ApprovedPaths /\ CanAddFolder(Len(approvedFolders))

\* the error Config.AddFolder returns
AddFolderError(path) == IF AddFolderFails(path) THEN "folder limit reached" ELSE "nil"

\* Config.RemoveFolder: by path
RemoveFolder(path) ==
    SeqFilter(approvedFolders, {fo \in Range(approvedFolders) : fo.path # path})

\* RemoveFolder without its clearing of the selection
RemoveFolderKeepsSelected(path) == selectedFolderID

\* the selected folder id after Config.RemoveFolder: cleared when the
\* selected folder is no longer in the list
RemoveFolderSelected(path) ==
    IF selectedFolderID \in {fo.id : fo \in Range(RemoveFolder(path))}
    THEN selectedFolderID ELSE 0

\* Config.RemoveFolderByID
RemoveFolderByID(id) ==
    SeqFilter(approvedFolders, {fo \in Range(approvedFolders) : fo.id # id})

InitCfg ==
    /\ approvedFolders = <<[id |-> 1, path |-> PathA]>>
    /\ selectedFolderID = 0
    /\ subscription = [MaxFolders |-> TierStandardMaxFolders, Active |-> TRUE]
    /\ nextFolderId = 2
    /\ cfgErr = "nil"

\* The paths of the configuration's own specification, "/a", "/b", ...
PathLetters == <<"a", "b", "c", "d", "e", "f", "g", "h">>
ConfigPath(i) == <<"/", PathLetters[i]>>
ConfigPaths == {ConfigPath(i) : i \in 1..MaxPaths}
ConfigIds == 1..(TierStandardMaxFolders + MaxConfigAdds)

\* Load of a stored configuration of the standard tier: up to MaxFolders
\* folders, the subscription active or not.
InitLoaded ==
    \E k \in 0..TierStandardMaxFolders, active \in BOOLEAN :
        /\ approvedFolders = [i \in 1..k |-> [id |-> i, path |-> ConfigPath(i)]]
        /\ selectedFolderID = 0
        /\ subscription = [MaxFolders |-> TierStandardMaxFolders, Active |-> active]
        /\ nextFolderId = TierStandardMaxFolders + 1
        /\ cfgErr = "nil"

\* A call of Config.AddFolder.
callAddFolder(path) ==
    /\ AddFolderAppends(path) => nextFolderId \in ConfigIds
    /\ approvedFolders' = AddFolder(path)
    /\ nextFolderId' = IF AddFolderAppends(path) THEN nextFolderId + 1 ELSE nextFolderId
    /\ cfgErr' = AddFolderError(path)
    /\ UNCHANGED <<selectedFolderID, subscription,
                   devVars, presenceVars, watcherVars, agentVars, ctlVars, tunVars>>

\* A call of Config.RemoveFolder, which returns nothing.
callRemoveFolder(path) ==
    /\ approvedFolders' = RemoveFolder(path)
    /\ selectedFolderID' = RemoveFolderSelected(path)
    /\ UNCHANGED <<subscription, nextFolderId, cfgErr,
                   devVars, presenceVars, watcherVars, agentVars, ctlVars, tunVars>>

\* A call of Config.RemoveFolderByID.
callRemoveFolderByID(id) ==
    /\ IF id \in ApprovedIds
       THEN /\ approvedFolders' = RemoveFolderByID(id)
            /\ selectedFolderID' = IF selectedFolderID = id THEN 0 ELSE selectedFolderID
            /\ cfgErr' = "nil"
       ELSE /\ cfgErr' = "not found"
            /\ UNCHANGED <<approvedFolders, selectedFolderID>>
    /\ UNCHANGED <<subscription, nextFolderId,
                   devVars, presenceVars, watcherVars, agentVars, ctlVars, tunVars>>

\* A call of Config.SelectFolder.
callSelectFolder(id) ==
    /\ IF id \in ApprovedIds
       THEN selectedFolderID' = id /\ cfgErr' = "nil"
       ELSE cfgErr' = "not found" /\ UNCHANGED selectedFolderID
    /\ UNCHANGED <<approvedFolders, subscription, nextFolderId,
                   devVars, presenceVars, watcherVars, agentVars, ctlVars, tunVars>>


(***************************************************************************)
(* The session-log watcher.                                                *)
(*                                                                         *)
(* Time advances in ticks of 250 ms; the debounce period is two ticks.     *)
(* Timers carry the ticks left until their deadline.                       *)
(***************************************************************************)
UpdateDebounce == 2

Goroutines == {"notify", "poll"}
IdleRd == [pc |-> "idle", file |-> "", pos |-> 0]
NoSession == [exists |-> FALSE, ProjectPath |-> <<>>, MessageCount |-> 0]

\* A log grows by writes, and offsets count writes.  A write is "m", one
\* whole line with its newline; or "c", the head of a line, without a
\* newline; or "nl", the rest of that line with its newline.
\*
\* Number of messages readNewLines finds when it reads content from offset
\* start to the end of the file: every line that ends in a newline and
\* parses.  A line parses only when it is read from its first byte; the
\* rest of a line whose head lies before start does not.
RECURSIVE CountFrom(_, _, _, _)
CountFrom(content, i, atLineStart, seen) ==
    IF i > Len(content) THEN 0
    ELSE IF content[i] = "m"
         THEN (IF atLineStart /\ ~seen THEN 1 ELSE 0)
              + CountFrom(content, i + 1, TRUE, FALSE)
    ELSE IF content[i] = "nl"
         THEN (IF atLineStart /\ seen THEN 1 ELSE 0)
              + CountFrom(content, i + 1, TRUE, FALSE)
         ELSE CountFrom(content, i + 1, atLineStart, TRUE)

MessagesFrom(content, start) ==
    CountFrom(content, start + 1, start = 0 \/ content[start] # "c", FALSE)

\* parseSessionFile: the messages of the whole file.  A last line without
\* its newline is an unfinished JSON document and does not parse.
parseSessionFile(content) == MessagesFrom(content, 0)

ArmedTimers == {t \in timers : ~t.fired}
DueTimers == {t \in ArmedTimers : t.left = 0}

\* timer.Stop() on the timer of the map entry of session s: an armed timer
\* is removed; a timer that has fired keeps its pending callback.
StopTimerOf(s) == {t \in timers : ~(t.id = updateTimers[s] /\ ~t.fired)}

InitWatcher ==
    /\ logContent = [f \in LogFiles |-> <<>>]
    /\ fsEvents = {}
    /\ sessions = [f \in LogFiles |->
                     IF IsFolderApproved(decodeProjectPath(LogDirOf(f)))
                     THEN [exists |-> TRUE,
                           ProjectPath |-> decodeProjectPath(LogDirOf(f)),
                           MessageCount |-> 0]
                     ELSE NoSession]
    /\ filePositions = [f \in LogFiles |->
                     IF IsFolderApproved(decodeProjectPath(LogDirOf(f)))
                     THEN 0 ELSE -1]
    /\ pendingUpdates = {}
    /\ updateTimers = [f \in LogFiles |-> 0]
    /\ timers = {}
    /\ nextTimer = 1
    /\ rd = [g \in Goroutines |-> IdleRd]
    /\ pollPhase = "idle"
    /\ pollSnap = [f \in LogFiles |-> -1]
    /\ pollTodo = {}
    /\ sinceUpdate = [f \in LogFiles |-> UpdateDebounce]
    /\ droppedAt = [f \in LogFiles |->
                     IF IsFolderApproved(decodeProjectPath(LogDirOf(f)))
                     THEN -1 ELSE 0]

\* The coder process appends one write to a session log; the kernel queues
\* a Write event.  It writes a line in one write or in two.
AppendLog(f, b) ==
    /\ Len(logContent[f]) < MaxFileLen
    /\ (b = "nl") <=> (logContent[f] # <<>> /\ logContent[f][Len(logContent[f])] = "c")
    /\ logContent' = [logContent EXCEPT ![f] = Append(@, b)]
    /\ fsEvents' = fsEvents \cup {f}
    /\ UNCHANGED <<cfgVars, indexVars, rd, pollVars, obsWatcherVars, notWatcher>>

\* fsnotifyLoop takes a Write event and runs handleFileModified up to its
\* call of readNewLines.
handleFileModified(f) ==
    /\ f \in fsEvents
    /\ rd["notify"].pc = "idle"
    /\ fsEvents' = fsEvents \ {f}
    /\ rd' = [rd EXCEPT !["notify"] =
                IF filePositions[f] = -1 THEN IdleRd
                ELSE [pc |-> "read", file |-> f, pos |-> filePositions[f]]]
    /\ UNCHANGED <<cfgVars, logContent, indexVars, pollVars, obsWatcherVars, notWatcher>>

\* pollForChanges, first part: copy the positions under the lock.
pollForChanges ==
    /\ pollPhase = "idle"
    /\ pollPhase' = "files"
    /\ pollSnap' = filePositions
    /\ pollTodo' = {f \in LogFiles : filePositions[f] # -1}
    /\ UNCHANGED <<cfgVars, fsVars, indexVars, rd, obsWatcherVars, notWatcher>>

\* pollForChanges, the loop body for one file of the copy.
pollCheckFile(f) ==
    /\ pollPhase = "files"
    /\ f \in pollTodo
    /\ rd["poll"].pc = "idle"
    /\ pollTodo' = pollTodo \ {f}
    /\ pollSnap' = [pollSnap EXCEPT ![f] = -1]
    /\ rd' = [rd EXCEPT !["poll"] =
                IF Len(logContent[f]) > pollSnap[f]
                THEN [pc |-> "read", file |-> f, pos |-> pollSnap[f]]
                ELSE IdleRd]
    /\ UNCHANGED <<cfgVars, fsVars, indexVars, pollPhase, obsWatcherVars, notWatcher>>

\* the messages a read of f from offset start records out of lines that
\* were appended after the folder of f was dropped
LateMessages(f, start) ==
    IF droppedAt[f] = -1 \/ ~sessions[f].exists THEN 0
    ELSE MessagesFrom(logContent[f], IF droppedAt[f] > start THEN droppedAt[f] ELSE start)

\* An update of s that arrives less than a debounce period after the
\* previous one belongs to the same burst, and the timers of s that are
\* still armed belong to earlier updates of that burst: they are stale.
Superseded(t, s) ==
    IF t.sid = s /\ ~t.fired /\ sinceUpdate[s] < UpdateDebounce
    THEN [t EXCEPT !.stale = TRUE] ELSE t

\* scheduleSessionUpdate(s), as the primed timers.
scheduleSessionUpdate(s, late) ==
    /\ pendingUpdates' = pendingUpdates \cup {s}
    /\ timers' = {Superseded(t, s) :
                    t \in (IF updateTimers[s] # 0 THEN StopTimerOf(s) ELSE timers)}
                 \cup {[id |-> nextTimer, sid |-> s, left |-> UpdateDebounce,
                        fired |-> FALSE, stale |-> FALSE, late |-> late]}
    /\ updateTimers' = [updateTimers EXCEPT ![s] = nextTimer]
    /\ nextTimer' = nextTimer + 1
    /\ sinceUpdate' = [sinceUpdate EXCEPT ![s] = 0]

\* readNewLines up to its last step: goroutine g reads from its start
\* offset to the end of the file as it is now; each message goes through
\* updateSessionFromMessage, which counts it when the session exists; when
\* there was a message, scheduleSessionUpdate.  The offset the file handle
\* ends at is the size of the file at this moment.
readNewLines(g) ==
    LET f == rd[g].file
        n == MessagesFrom(logContent[f], rd[g].pos)
    IN  /\ rd[g].pc = "read"
        /\ sessions' = [sessions EXCEPT ![f].MessageCount =
                          IF sessions[f].exists THEN @ + n ELSE @]
        /\ IF n > 0
           THEN /\ nextTimer <= MaxTimers
                /\ DueTimers = {}
                /\ scheduleSessionUpdate(extractSessionID(f), LateMessages(f, rd[g].pos) > 0)
           ELSE UNCHANGED <<pendingUpdates, timers, updateTimers, nextTimer, sinceUpdate>>
        /\ rd' = [rd EXCEPT ![g] = [pc |-> "setpos", file |-> f,
                                    pos |-> Len(logContent[f])]]
        /\ UNCHANGED <<cfgVars, fsVars, filePositions, pollVars, droppedAt, notWatcher>>

\* readNewLines, the last step: store the offset when the file is still
\* tracked.
setPosition(g) ==
    LET f == rd[g].file
    IN  /\ rd[g].pc = "setpos"
        /\ filePositions' = [filePositions EXCEPT ![f] =
                               IF @ # -1 THEN rd[g].pos ELSE @]
        /\ rd' = [rd EXCEPT ![g] = IdleRd]
        /\ UNCHANGED <<cfgVars, fsVars, sessions, pendingUpdates, updateTimers,
                       timers, nextTimer, pollVars, obsWatcherVars, notWatcher>>

\* handleNewFile indexes f: it has no session and its decoded project path
\* passes the ShouldWatchProject filter
NewFileTracked(f) ==
    /\ ~sessions[f].exists
    /\ IsFolderApproved(decodeProjectPath(LogDirOf(f)))

\* scanForNewSessions, the end of pollForChanges: handleNewFile for every
\* log that has no session; the log is indexed at its current size.
scanForNewSessions ==
    /\ pollPhase = "files"
    /\ pollTodo = {}
    /\ rd["poll"].pc = "idle"
    /\ pollPhase' = "idle"
    /\ sessions' = [f \in LogFiles |->
                      IF NewFileTracked(f)
                      THEN [exists |-> TRUE,
                            ProjectPath |-> decodeProjectPath(LogDirOf(f)),
                            MessageCount |-> parseSessionFile(logContent[f])]
                      ELSE sessions[f]]
    /\ filePositions' = [f \in LogFiles |->
                      IF NewFileTracked(f) THEN Len(logContent[f])
                      ELSE filePositions[f]]
    /\ UNCHANGED <<cfgVars, fsVars, pendingUpdates, updateTimers, timers, nextTimer,
                   rd, pollSnap, pollTodo, obsWatcherVars, notWatcher>>

\* The runtime fires a timer whose deadline has come: its callback is now a
\* goroutine about to run, and Stop() no longer prevents it.
timerFires(t) ==
    /\ t \in DueTimers
    /\ timers' = (timers \ {t}) \cup {[t EXCEPT !.fired = TRUE]}
    /\ UNCHANGED <<cfgVars, fsVars, sessions, filePositions, pendingUpdates,
                   updateTimers, nextTimer, rd, pollVars, obsWatcherVars, notWatcher>>

\* sendSessionUpdate, the callback of timer t; it calls OnSessionUpdated
\* when the session exists.
sendSessionUpdate(t) ==
    LET s == t.sid
    IN  /\ t \in timers
        /\ t.fired
        /\ timers' = timers \ {t}
        /\ IF sessions[s].exists
           THEN /\ pendingUpdates' = pendingUpdates \ {s}
                /\ updateTimers' = [updateTimers EXCEPT ![s] = 0]
           ELSE UNCHANGED <<pendingUpdates, updateTimers>>
        /\ UNCHANGED <<cfgVars, fsVars, sessions, filePositions, nextTimer, rd,
                       pollVars, sinceUpdate, droppedAt, notWatcher>>

\* One tick of the clock, no sooner than the timers that are due have
\* fired.  With no armed timer the passing of time changes nothing the
\* watcher can observe.
Tick ==
    /\ ArmedTimers # {}
    /\ DueTimers = {}
    /\ timers' = {IF t.fired THEN t ELSE [t EXCEPT !.left = @ - 1] : t \in timers}
    /\ sinceUpdate' = [f \in LogFiles |->
                         IF sinceUpdate[f] < UpdateDebounce THEN sinceUpdate[f] + 1
                         ELSE sinceUpdate[f]]
    /\ UNCHANGED <<cfgVars, fsVars, sessions, filePositions, pendingUpdates,
                   updateTimers, nextTimer, rd, pollVars, droppedAt, notWatcher>>

(***************************************************************************)
(* Folder handlers of the router.  saved is the outcome of Config.Save.    *)
(***************************************************************************)
\* the log size at which each log's folder stopped being approved, when the
\* folder list becomes folders
DroppedAfter(folders) ==
    [f \in LogFiles |->
        IF decodeProjectPath(LogDirOf(f)) \in {fo.path : fo \in Range(folders)}
        THEN -1
        ELSE IF droppedAt[f] = -1 THEN Len(logContent[f]) ELSE droppedAt[f]]

\* the sessions ClearProjectSessions removes
ClearedSessions(projectPath) ==
    {s \in LogFiles : sessions[s].exists /\ sessions[s].ProjectPath = projectPath}

\* Watcher.ClearProjectSessions, as the primed index
ClearProjectSessions(projectPath) ==
    LET gone == ClearedSessions(projectPath)
    IN  /\ sessions' = [s \in LogFiles |-> IF s \in gone THEN NoSession ELSE sessions[s]]
        /\ filePositions' = [s \in LogFiles |-> IF s \in gone THEN -1 ELSE filePositions[s]]
        /\ timers' = {t \in timers :
                        ~(\E s \in gone : updateTimers[s] # 0 /\ t.id = updateTimers[s]
                                          /\ ~t.fired)}
        /\ updateTimers' = [s \in LogFiles |-> IF s \in gone THEN 0 ELSE updateTimers[s]]
        /\ pendingUpdates' = pendingUpdates \ gone

\* the logs ScanProjectSessions indexes
ScannedLogs(projectPath) ==
    {f \in LogFiles : LogDirOf(f) = EncodeProjectPath(projectPath) /\ ~sessions[f].exists}

\* Watcher.ScanProjectSessions, as the primed index
ScanProjectSessions(projectPath) ==
    LET found == ScannedLogs(projectPath)
    IN  /\ sessions' = [f \in LogFiles |->
                          IF f \in found
                          THEN [exists |-> TRUE, ProjectPath |-> projectPath,
                                MessageCount |-> parseSessionFile(logContent[f])]
                          ELSE sessions[f]]
        /\ filePositions' = [f \in LogFiles |->
                          IF f \in found THEN Len(logContent[f]) ELSE filePositions[f]]

\* handleFolderAdd: the tray adds a folder.
handleFolderAdd(path) ==
    /\ AddFolderAppends(path) => nextFolderId <= MaxFolderId
    /\ approvedFolders' = AddFolder(path)
    /\ nextFolderId' = IF AddFolderAppends(path) THEN nextFolderId + 1 ELSE nextFolderId
    /\ cfgErr' = AddFolderError(path)
    /\ droppedAt' = DroppedAfter(AddFolder(path))
    /\ UNCHANGED <<selectedFolderID, subscription, fsVars, indexVars, rd, pollVars,
                   sinceUpdate, notWatcher>>

\* handleFolderRemove: the tray removes a folder.
handleFolderRemove(path) ==
    /\ approvedFolders' = RemoveFolder(path)
    /\ selectedFolderID' = RemoveFolderSelected(path)
    /\ droppedAt' = DroppedAfter(RemoveFolder(path))
    /\ UNCHANGED <<subscription, nextFolderId, cfgErr, fsVars, indexVars, rd, pollVars,
                   sinceUpdate, notWatcher>>

\* handleFolderAddRequest: a remote client adds a folder by path.
handleFolderAddRequest(path, saved) ==
    /\ AddFolderAppends(path) => nextFolderId <= MaxFolderId
    /\ approvedFolders' = AddFolder(path)
    /\ nextFolderId' = IF AddFolderAppends(path) THEN nextFolderId + 1 ELSE nextFolderId
    /\ cfgErr' = AddFolderError(path)
    /\ droppedAt' = DroppedAfter(AddFolder(path))
    /\ IF ~AddFolderFails(path) /\ saved
       THEN ScanProjectSessions(path)
       ELSE UNCHANGED <<sessions, filePositions>>
    /\ UNCHANGED <<selectedFolderID, subscription, fsVars, pendingUpdates, updateTimers,
                   timers, nextTimer, rd, pollVars, sinceUpdate, notWatcher>>

\* handleFolderRemoveRequest: a remote client removes a folder by id.  For
\* an id that is not in the list it only answers with an error.
handleFolderRemoveRequest(id, saved) ==
    LET folderPath == FolderPathOf(id)
    IN  /\ id \in ApprovedIds
        /\ approvedFolders' = RemoveFolderByID(id)
        /\ selectedFolderID' = IF selectedFolderID = id THEN 0 ELSE selectedFolderID
        /\ cfgErr' = "nil"
        /\ droppedAt' = DroppedAfter(RemoveFolderByID(id))
        /\ IF saved /\ folderPath # <<>>
           THEN ClearProjectSessions(folderPath)
           ELSE UNCHANGED <<sessions, filePositions, timers, updateTimers, pendingUpdates>>
        /\ UNCHANGED <<subscription, nextFolderId, fsVars, nextTimer, rd, pollVars,
                       sinceUpdate, notWatcher>>

(***************************************************************************)
(* The control channel.                                                    *)
(*                                                                         *)
(* A socket is named by the generation of the pump context created just    *)
(* before it was dialled.  A pump goroutine is named by the generation it  *)
(* was started for; ctx and conn are the context and the socket it uses in *)
(* the call it is blocked in.                                              *)
(***************************************************************************)
LoopSlots == {"loop1", "loop2"}
Connectors == {"main"} \cup LoopSlots

RunningLoops == {l \in LoopSlots : cpc[l] # "off"}

\* <-ctx.Done() is ready: the pump context was cancelled, or its parent was
Cancelled(g) == g \in cancelledGens \/ ctlClosed

\* The tasks that call SendMessage: the router's event loop and an
\* executor's event callback.
Senders == {"router", "executor"}

IdleSend == [pc |-> "idle", conn |-> 0, disc |-> FALSE]

InitCtl ==
    /\ ctlClosed = FALSE
    /\ wsConn = 0
    /\ liveConns = {}
    /\ connected = FALSE
    /\ reconnecting = FALSE
    /\ pumpGen = 0
    /\ cancelledGens = {}
    /\ pumpWg = 0
    /\ pumps = {}
    /\ cpc = [p \in Connectors |-> "off"]
    /\ connMu = "free"
    /\ closePc = "off"
    /\ senders = [s \in Senders |-> IdleSend]

\* triggerReconnect without its compare-and-swap: every call starts a loop
triggerReconnectNoCAS ==
    IF ctlClosed \/ \A l \in LoopSlots : cpc[l] # "off"
    THEN UNCHANGED <<reconnecting, cpc>>
    ELSE /\ reconnecting' = TRUE
         /\ cpc' = [cpc EXCEPT ![CHOOSE l \in LoopSlots : cpc[l] = "off"] = "sleep"]

\* triggerReconnect, as the primed flag and loops: nothing when the client
\* is shutting down or the compare-and-swap of the flag fails; otherwise a
\* reconnectLoop goroutine starts.
triggerReconnect ==
    IF ctlClosed \/ reconnecting \/ \A l \in LoopSlots : cpc[l] # "off"
    THEN UNCHANGED <<reconnecting, cpc>>
    ELSE /\ reconnecting' = TRUE
         /\ cpc' = [cpc EXCEPT ![CHOOSE l \in LoopSlots : cpc[l] = "off"] = "sleep"]

\* A pump returns: its deferred calls run, triggerReconnect and then
\* pumpWg.Done.
pumpExits(pm) ==
    /\ pumps' = pumps \ {pm}
    /\ pumpWg' = pumpWg - 1
    /\ triggerReconnect

\* readPump at the top of its loop.  It reads the pumpCtx and conn fields
\* anew.  A pump of an earlier generation reads them without any
\* synchronisation with the connectLocked that wrote them: it may see the
\* context it was started with, which is cancelled, or the current one.
readPumpLoop(pm, seesCurrent) ==
    /\ pm \in pumps /\ pm.kind = "read" /\ pm.pc = "loop"
    /\ pm.id = pumpGen => seesCurrent
    /\ IF ~seesCurrent \/ Cancelled(pumpGen) \/ wsConn = 0
       THEN pumpExits(pm)
       ELSE /\ pumps' = (pumps \ {pm})
                        \cup {[pm EXCEPT !.pc = "reading", !.ctx = pumpGen, !.conn = wsConn]}
            /\ UNCHANGED <<pumpWg, reconnecting, cpc>>
    /\ UNCHANGED <<ctlClosed, wsConn, liveConns, connected, pumpGen, cancelledGens,
                   connMu, closePc, senders,
                   cfgVars, devVars, presenceVars, watcherVars, agentVars, tunVars>>

\* conn.Read returns a message: readPump calls the message handler.
readPumpMessage(pm) ==
    /\ pm \in pumps /\ pm.pc = "reading"
    /\ pm.conn \in liveConns /\ ~Cancelled(pm.ctx)
    /\ pumps' = (pumps \ {pm}) \cup {[pm EXCEPT !.pc = "handling"]}
    /\ UNCHANGED <<ctlClosed, wsConn, liveConns, connected, reconnecting, pumpGen,
                   cancelledGens, pumpWg, cpc, connMu, closePc,
                   senders,
                   cfgVars, devVars, presenceVars, watcherVars, agentVars, tunVars>>

\* conn.Read returns an error: the socket is gone or the context cancelled.
readPumpError(pm) ==
    /\ pm \in pumps /\ pm.pc = "reading"
    /\ pm.conn \notin liveConns \/ Cancelled(pm.ctx)
    /\ pumpExits(pm)
    /\ UNCHANGED <<ctlClosed, wsConn, liveConns, connected, pumpGen, cancelledGens,
                   connMu, closePc, senders,
                   cfgVars, devVars, presenceVars, watcherVars, agentVars, tunVars>>

\* The message handler returns to readPump.
handlerReturns(pm) ==
    /\ pm \in pumps /\ pm.pc = "handling"
    /\ pumps' = (pumps \ {pm}) \cup {[pm EXCEPT !.pc = "loop"]}
    /\ UNCHANGED <<ctlClosed, wsConn, liveConns, connected, reconnecting, pumpGen,
                   cancelledGens, pumpWg, cpc, connMu, closePc,
                   senders,
                   cfgVars, devVars, presenceVars, watcherVars, agentVars, tunVars>>

\* writePump in its select: the context is done, or the ticker fires and it
\* pings the socket the conn field names.
writePumpSelect(pm) ==
    /\ pm \in pumps /\ pm.kind = "write" /\ pm.pc = "select"
    /\ IF Cancelled(pm.ctx) \/ wsConn = 0
       THEN pumpExits(pm)
       ELSE /\ pumps' = (pumps \ {pm})
                        \cup {[pm EXCEPT !.pc = "pinging", !.ctx = pumpGen, !.conn = wsConn]}
            /\ UNCHANGED <<pumpWg, reconnecting, cpc>>
    /\ UNCHANGED <<ctlClosed, wsConn, liveConns, connected, pumpGen, cancelledGens,
                   connMu, closePc, senders,
                   cfgVars, devVars, presenceVars, watcherVars, agentVars, tunVars>>

\* conn.Ping returns: on success writePump enters its select again, on the
\* context the pumpCtx field names now.
writePumpPinged(pm) ==
    /\ pm \in pumps /\ pm.pc = "pinging"
    /\ IF pm.conn \in liveConns /\ ~Cancelled(pm.ctx)
       THEN /\ pumps' = (pumps \ {pm}) \cup {[pm EXCEPT !.pc = "select", !.ctx = pumpGen]}
            /\ UNCHANGED <<pumpWg, reconnecting, cpc>>
       ELSE pumpExits(pm)
    /\ UNCHANGED <<ctlClosed, wsConn, liveConns, connected, pumpGen, cancelledGens,
                   connMu, closePc, senders,
                   cfgVars, devVars, presenceVars, watcherVars, agentVars, tunVars>>

\* The network path of the current socket fails.
connBreaks ==
    /\ wsConn \in liveConns
    /\ liveConns' = liveConns \ {wsConn}
    /\ UNCHANGED <<ctlClosed, wsConn, connected, reconnecting, pumpGen, cancelledGens,
                   pumpWg, pumps, cpc, connMu, closePc,
                   senders,
                   cfgVars, devVars, presenceVars, watcherVars, agentVars, tunVars>>

\* Agent.Start: a goroutine calls ConnectWithRetry.
ConnectWithRetry ==
    /\ cpc["main"] = "off" /\ ~ctlClosed
    /\ cpc' = [cpc EXCEPT !["main"] = "lock"]
    /\ UNCHANGED <<ctlClosed, wsConn, liveConns, connected, reconnecting, pumpGen,
                   cancelledGens, pumpWg, pumps, connMu, closePc,
                   senders,
                   cfgVars, devVars, presenceVars, watcherVars, agentVars, tunVars>>

\* A goroutine that connects gives up: ConnectWithRetry returns, or
\* reconnectLoop returns and its deferred reconnecting.Store(false) runs.
connectorReturns(p) ==
    /\ cpc' = [cpc EXCEPT ![p] = IF p = "main" THEN "done" ELSE "off"]
    /\ reconnecting' = IF p = "main" THEN reconnecting ELSE FALSE

\* The retry delay of ConnectWithRetry or reconnectLoop has passed, or the
\* main context was cancelled during it.
retryDelayOver(p) ==
    /\ cpc[p] = "sleep"
    /\ IF ctlClosed
       THEN connectorReturns(p)
       ELSE cpc' = [cpc EXCEPT ![p] = "lock"] /\ UNCHANGED reconnecting
    /\ UNCHANGED <<ctlClosed, wsConn, liveConns, connected, pumpGen, cancelledGens,
                   pumpWg, pumps, connMu, closePc,
                   senders,
                   cfgVars, devVars, presenceVars, watcherVars, agentVars, tunVars>>

\* connectLocked after the old pumps are dealt with: the old socket is
\* closed, connected is cleared and a new pump context is created.
teardown ==
    /\ liveConns' = liveConns \ {wsConn}
    /\ wsConn' = 0
    /\ connected' = FALSE
    /\ pumpGen' = pumpGen + 1

\* connMu is taken and connectLocked begins: it fails when the client is
\* shutting down, cancels the old pump context and waits when there is one.
connectLocked(p) ==
    /\ cpc[p] = "lock" /\ connMu = "free"
    /\ pumpGen < MaxGen
    /\ IF ctlClosed
       THEN /\ connectorReturns(p)
            /\ UNCHANGED <<connMu, cancelledGens, liveConns, wsConn, connected, pumpGen>>
       ELSE /\ connMu' = p
            /\ UNCHANGED reconnecting
            /\ IF pumpGen # 0
               THEN /\ cancelledGens' = cancelledGens \cup {pumpGen}
                    /\ cpc' = [cpc EXCEPT ![p] = "wait"]
                    /\ UNCHANGED <<liveConns, wsConn, connected, pumpGen>>
               ELSE /\ teardown
                    /\ cpc' = [cpc EXCEPT ![p] = "dial"]
                    /\ UNCHANGED cancelledGens
    /\ UNCHANGED <<ctlClosed, pumpWg, pumps, closePc,
                   senders,
                   cfgVars, devVars, presenceVars, watcherVars, agentVars, tunVars>>

\* The wait for the old pumps ends because both have exited.
pumpsDrained(p) ==
    /\ cpc[p] = "wait" /\ pumpWg = 0
    /\ teardown
    /\ cpc' = [cpc EXCEPT ![p] = "dial"]
    /\ UNCHANGED <<ctlClosed, reconnecting, cancelledGens, pumpWg, pumps, connMu, closePc,
                   senders,
                   cfgVars, devVars, presenceVars, watcherVars, agentVars, tunVars>>

\* The wait ends after 2 seconds.  A pump that is blocked in a read, a ping
\* or its select sees the cancellation well within that time, so the only
\* pumps left are those inside a message handler.
pumpsTimeout(p) ==
    /\ cpc[p] = "wait" /\ pumpWg > 0
    /\ \A pm \in pumps : pm.pc = "handling"
    /\ teardown
    /\ cpc' = [cpc EXCEPT ![p] = "dial"]
    /\ UNCHANGED <<ctlClosed, reconnecting, cancelledGens, pumpWg, pumps, connMu, closePc,
                   senders,
                   cfgVars, devVars, presenceVars, watcherVars, agentVars, tunVars>>

\* The wait ends because the main context was cancelled: connectLocked fails.
waitCancelled(p) ==
    /\ cpc[p] = "wait" /\ ctlClosed
    /\ connMu' = "free"
    /\ connectorReturns(p)
    /\ UNCHANGED <<ctlClosed, wsConn, liveConns, connected, pumpGen, cancelledGens,
                   pumpWg, pumps, closePc,
                   senders,
                   cfgVars, devVars, presenceVars, watcherVars, agentVars, tunVars>>

\* The dial succeeds: the socket is stored, connected is set, the two pumps
\* are started and connMu is released.
dialOk(p) ==
    /\ cpc[p] = "dial" /\ ~ctlClosed
    /\ wsConn' = pumpGen
    /\ liveConns' = liveConns \cup {pumpGen}
    /\ connected' = TRUE
    /\ pumpWg' = pumpWg + 2
    /\ pumps' = pumps \cup
          {[kind |-> "read", id |-> pumpGen, pc |-> "loop", ctx |-> pumpGen, conn |-> pumpGen],
           [kind |-> "write", id |-> pumpGen, pc |-> "select", ctx |-> pumpGen, conn |-> pumpGen]}
    /\ connMu' = "free"
    /\ cpc' = [cpc EXCEPT ![p] = IF p = "main" THEN "done" ELSE "return"]
    /\ UNCHANGED <<ctlClosed, reconnecting, pumpGen, cancelledGens, closePc,
                   senders,
                   cfgVars, devVars, presenceVars, watcherVars, agentVars, tunVars>>

\* The dial fails: connMu is released and the caller retries after a delay.
dialFails(p) ==
    /\ cpc[p] = "dial"
    /\ connMu' = "free"
    /\ cpc' = [cpc EXCEPT ![p] = "sleep"]
    /\ UNCHANGED <<ctlClosed, wsConn, liveConns, connected, reconnecting, pumpGen,
                   cancelledGens, pumpWg, pumps, closePc,
                   senders,
                   cfgVars, devVars, presenceVars, watcherVars, agentVars, tunVars>>

\* reconnectLoop returns after a successful connect.
reconnectLoopReturns(l) ==
    /\ l \in LoopSlots /\ cpc[l] = "return"
    /\ connectorReturns(l)
    /\ UNCHANGED <<ctlClosed, wsConn, liveConns, connected, pumpGen, cancelledGens,
                   pumpWg, pumps, connMu, closePc,
                   senders,
                   cfgVars, devVars, presenceVars, watcherVars, agentVars, tunVars>>

\* Close: the main context is cancelled.
closeCancel ==
    /\ closePc = "off" /\ ~ctlClosed
    /\ ctlClosed' = TRUE
    /\ closePc' = "lock"
    /\ UNCHANGED <<wsConn, liveConns, connected, reconnecting, pumpGen, cancelledGens,
                   pumpWg, pumps, cpc, connMu,
                   senders,
                   cfgVars, devVars, presenceVars, watcherVars, agentVars, tunVars>>

\* Close: under connMu the pump context is cancelled.
closePumpCancel ==
    /\ closePc = "lock" /\ connMu = "free"
    /\ cancelledGens' = IF pumpGen # 0 THEN cancelledGens \cup {pumpGen} ELSE cancelledGens
    /\ closePc' = "wait"
    /\ UNCHANGED <<ctlClosed, wsConn, liveConns, connected, reconnecting, pumpGen,
                   pumpWg, pumps, cpc, connMu,
                   senders,
                   cfgVars, devVars, presenceVars, watcherVars, agentVars, tunVars>>

\* Close: the pumps have exited and the socket is closed.
closeConn ==
    /\ closePc = "wait" /\ pumpWg = 0
    /\ liveConns' = liveConns \ {wsConn}
    /\ wsConn' = 0
    /\ connected' = FALSE
    /\ closePc' = "done"
    /\ UNCHANGED <<ctlClosed, reconnecting, pumpGen, cancelledGens, pumpWg, pumps, cpc, connMu,
                   senders,
                   cfgVars, devVars, presenceVars, watcherVars, agentVars, tunVars>>

(***************************************************************************)
(* SendMessage.  conn is the socket the call read from the conn field;     *)
(* disc records whether the channel was disconnected when the call began.  *)
(***************************************************************************)
\* A pump of the current connection of the given kind is running
PumpRunning(k) == \E pm \in pumps : pm.kind = k /\ pm.id = wsConn

\* The channel is disconnected: no connect has succeeded yet, Close has
\* run, or the reader or the keepalive of the current connection has
\* exited and no reconnect has succeeded since.
Disconnected ==
    \/ wsConn = 0
    \/ ~connected
    \/ closePc = "done"
    \/ ~PumpRunning("read")
    \/ ~PumpRunning("write")

\* SendMessage, its first three lines: under mu the conn field is copied,
\* and mu is released.
SendMessage(s) ==
    /\ senders[s].pc = "idle"
    /\ senders' = [senders EXCEPT ![s] = [pc |-> "check", conn |-> wsConn,
                                          disc |-> Disconnected]]
    /\ UNCHANGED <<ctlClosed, wsConn, liveConns, connected, reconnecting, pumpGen,
                   cancelledGens, pumpWg, pumps, cpc, connMu, closePc,
                   cfgVars, devVars, presenceVars, watcherVars, agentVars, tunVars>>

\* SendMessage, the check: "not connected" is returned when the copy is
\* nil or the connected flag is clear; otherwise conn.Write begins, with no
\* lock held.
sendCheck(s) ==
    /\ senders[s].pc = "check"
    /\ senders' = [senders EXCEPT ![s] =
                      IF senders[s].conn = 0 \/ ~connected
                      THEN IdleSend
                      ELSE [pc |-> "write", conn |-> senders[s].conn, disc |-> FALSE]]
    /\ UNCHANGED <<ctlClosed, wsConn, liveConns, connected, reconnecting, pumpGen,
                   cancelledGens, pumpWg, pumps, cpc, connMu, closePc,
                   cfgVars, devVars, presenceVars, watcherVars, agentVars, tunVars>>

\* conn.Write returns, with the frame written or with an error.
sendWriteReturns(s) ==
    /\ senders[s].pc = "write"
    /\ senders' = [senders EXCEPT ![s] = IdleSend]
    /\ UNCHANGED <<ctlClosed, wsConn, liveConns, connected, reconnecting, pumpGen,
                   cancelledGens, pumpWg, pumps, cpc, connMu, closePc,
                   cfgVars, devVars, presenceVars, watcherVars, agentVars, tunVars>>

(***************************************************************************)
(* The preview tunnel of one folder.                                       *)
(***************************************************************************)
maxReconnects == 5

\* The backoffs table of handleDisconnect, in seconds
backoffs == <<1, 2, 4, 8, 16>>

\* A wait that grows by a second with each attempt
BackoffLinear(attempt) == attempt

\* The wait before a reconnection attempt: the entry of the table at
\* attempt - 1, the last entry beyond the table.
Backoff(attempt) ==
    LET backoffIndex == IF attempt - 1 >= Len(backoffs) THEN Len(backoffs) - 1
                        ELSE attempt - 1
    IN  backoffs[backoffIndex + 1]

\* No setState call was made
NoCallback == [state |-> "none", attempt |-> 0]

\* The state-change callback handlePreviewStart installs: the preview
\* status it sends for a setState(state, attempt) call, "none" when it
\* sends nothing.
PreviewStatus(cb) ==
    CASE cb.state = "reconnecting" -> "reconnecting"
      [] cb.state = "connected" /\ cb.attempt > 0 -> "reconnected"
      [] cb.state = "disconnected" /\ cb.attempt > 0 -> "disconnected"
      [] OTHER -> "none"

HandlingPaths == {"create-error", "loopback-error", "body-error", "ok"}

InitTunnel ==
    /\ tunConn = 0
    /\ tunLive = {}
    /\ tunClosed = FALSE
    /\ tunReader = [pc |-> "off", attempt |-> 0]
    /\ tunState = "disconnected"
    /\ tunInbox = {}
    /\ tunHandlers = {}
    /\ tunRecv = [r \in 1..(MaxReqs + 1) |-> 0]
    /\ tunOut = [r \in 1..(MaxReqs + 1) |-> <<>>]
    /\ nextReq = 1
    /\ nextTunConn = 1
    /\ tunCallback = NoCallback
    /\ tunWaited = 0
    /\ tunClosePc = "off"

\* handleRequest whose body-read error path lacks its return: after the
\* error response the normal response is sent too
handleRequestResponsesFallThrough(path) ==
    CASE path = "ok" -> <<200>>
      [] path = "body-error" -> <<502, 200>>
      [] OTHER -> <<502>>

\* The responses handleRequest passes to sendResponse on each of its paths:
\* sendErrorResponse (status 502) and return when the request cannot be
\* created, the loopback call fails or the body cannot be read, else the
\* response of the local server.
handleRequestResponses(path) ==
    IF path = "ok" THEN <<200>> ELSE <<502>>

\* connectInternal after a successful dial: the socket is stored, the state
\* becomes connected and a readPump is started.
connectInternal ==
    /\ tunConn' = nextTunConn
    /\ tunLive' = tunLive \cup {nextTunConn}
    /\ nextTunConn' = nextTunConn + 1
    /\ tunState' = "connected"
    /\ tunCallback' = [state |-> "connected", attempt |-> 0]
    /\ tunReader' = [pc |-> "read", attempt |-> 0]

\* Connect, called when a preview starts.
tunnelConnect(ok) ==
    /\ tunReader.pc = "off"
    /\ tunWaited' = 0
    /\ IF ok /\ ~tunClosed /\ nextTunConn <= MaxTunConns
       THEN connectInternal
       ELSE /\ tunCallback' = NoCallback
            /\ UNCHANGED <<tunConn, tunLive, nextTunConn, tunState, tunReader>>
    /\ UNCHANGED <<tunClosed, tunInbox, tunHandlers, tunRecv, tunOut, nextReq,
                   tunClosePc,
                   cfgVars, devVars, presenceVars, watcherVars, agentVars, ctlVars>>

\* The relay writes a request with a fresh id to the tunnel socket.
relayWrites ==
    /\ tunConn \in tunLive /\ nextReq <= MaxReqs
    /\ tunInbox' = tunInbox \cup {[conn |-> tunConn, id |-> nextReq]}
    /\ nextReq' = nextReq + 1
    /\ tunCallback' = NoCallback
    /\ tunWaited' = 0
    /\ UNCHANGED <<tunConn, tunLive, tunClosed, tunReader, tunState, tunHandlers,
                   tunRecv, tunOut, nextTunConn,
                   tunClosePc,
                   cfgVars, devVars, presenceVars, watcherVars, agentVars, ctlVars>>

\* readPump reads a request and starts a handleRequest goroutine for it.
tunnelReadPump(m) ==
    /\ tunReader.pc = "read" /\ ~tunClosed
    /\ m \in tunInbox /\ m.conn = tunConn /\ tunConn \in tunLive
    /\ tunInbox' = tunInbox \ {m}
    /\ tunRecv' = [tunRecv EXCEPT ![m.id] = m.conn]
    /\ tunHandlers' = tunHandlers \cup {[id |-> m.id, pc |-> "handle", toSend |-> <<>>]}
    /\ tunCallback' = NoCallback
    /\ tunWaited' = 0
    /\ UNCHANGED <<tunConn, tunLive, tunClosed, tunReader, tunState, tunOut, nextReq,
                   nextTunConn, tunClosePc,
                   cfgVars, devVars, presenceVars, watcherVars, agentVars, ctlVars>>

\* readPump returns: the context is cancelled or the conn field is nil.
tunnelReadPumpReturns ==
    /\ tunReader.pc = "read"
    /\ tunClosed \/ tunConn = 0
    /\ tunReader' = [pc |-> "stopped", attempt |-> 0]
    /\ tunCallback' = NoCallback
    /\ tunWaited' = 0
    /\ UNCHANGED <<tunConn, tunLive, tunClosed, tunState, tunInbox, tunHandlers,
                   tunRecv, tunOut, nextReq, nextTunConn,
                   tunClosePc,
                   cfgVars, devVars, presenceVars, watcherVars, agentVars, ctlVars>>

\* conn.Read fails: the socket is closed and cleared and handleDisconnect
\* begins its first attempt.
tunnelReadError ==
    /\ tunReader.pc = "read" /\ ~tunClosed
    /\ tunConn # 0 /\ tunConn \notin tunLive
    /\ tunConn' = 0
    /\ tunState' = "reconnecting"
    /\ tunCallback' = [state |-> "reconnecting", attempt |-> 1]
    /\ tunWaited' = 0
    /\ tunReader' = [pc |-> "backoff", attempt |-> 1]
    /\ UNCHANGED <<tunLive, tunClosed, tunInbox, tunHandlers, tunRecv, tunOut, nextReq,
                   nextTunConn, tunClosePc,
                   cfgVars, devVars, presenceVars, watcherVars, agentVars, ctlVars>>

\* handleDisconnect after the backoff of an attempt: it stops when
\* cancelled, reconnects when the dial succeeds, and gives up after
\* maxReconnects failures.
handleDisconnect(ok) ==
    /\ tunReader.pc = "backoff"
    /\ tunWaited' = IF tunClosed THEN 0 ELSE Backoff(tunReader.attempt)
    /\ IF tunClosed
       THEN /\ tunState' = "disconnected"
            /\ tunCallback' = [state |-> "disconnected", attempt |-> tunReader.attempt]
            /\ tunReader' = [pc |-> "stopped", attempt |-> 0]
            /\ UNCHANGED <<tunConn, tunLive, nextTunConn>>
       ELSE IF ok /\ nextTunConn <= MaxTunConns
       THEN connectInternal
       ELSE /\ UNCHANGED <<tunConn, tunLive, nextTunConn>>
            /\ IF tunReader.attempt >= maxReconnects
               THEN /\ tunState' = "disconnected"
                    /\ tunCallback' = [state |-> "disconnected",
                                       attempt |-> maxReconnects]
                    /\ tunReader' = [pc |-> "stopped", attempt |-> 0]
               ELSE /\ tunState' = "reconnecting"
                    /\ tunCallback' = [state |-> "reconnecting",
                                       attempt |-> tunReader.attempt + 1]
                    /\ tunReader' = [tunReader EXCEPT !.attempt = @ + 1]
    /\ UNCHANGED <<tunClosed, tunInbox, tunHandlers, tunRecv, tunOut, nextReq,
                   tunClosePc,
                   cfgVars, devVars, presenceVars, watcherVars, agentVars, ctlVars>>

\* handleDisconnect after the backoff of an attempt, up to the return of
\* websocket.Dial in connectInternal: it stops when cancelled; a dial that
\* succeeds leaves an open socket that is not yet stored in the conn field.
handleDisconnectDial(ok) ==
    /\ tunReader.pc = "backoff"
    /\ tunWaited' = IF tunClosed THEN 0 ELSE Backoff(tunReader.attempt)
    /\ IF tunClosed
       THEN /\ tunState' = "disconnected"
            /\ tunCallback' = [state |-> "disconnected", attempt |-> tunReader.attempt]
            /\ tunReader' = [pc |-> "stopped", attempt |-> 0]
            /\ UNCHANGED <<tunLive, nextTunConn>>
       ELSE IF ok /\ nextTunConn <= MaxTunConns
       THEN /\ tunLive' = tunLive \cup {nextTunConn}
            /\ nextTunConn' = nextTunConn + 1
            /\ tunReader' = [tunReader EXCEPT !.pc = "install"]
            /\ tunCallback' = NoCallback
            /\ UNCHANGED tunState
       ELSE /\ UNCHANGED <<tunLive, nextTunConn>>
            /\ IF tunReader.attempt >= maxReconnects
               THEN /\ tunState' = "disconnected"
                    /\ tunCallback' = [state |-> "disconnected",
                                       attempt |-> maxReconnects]
                    /\ tunReader' = [pc |-> "stopped", attempt |-> 0]
               ELSE /\ tunState' = "reconnecting"
                    /\ tunCallback' = [state |-> "reconnecting",
                                       attempt |-> tunReader.attempt + 1]
                    /\ tunReader' = [tunReader EXCEPT !.attempt = @ + 1]
    /\ UNCHANGED <<tunConn, tunClosed, tunInbox, tunHandlers, tunRecv, tunOut, nextReq,
                   tunClosePc,
                   cfgVars, devVars, presenceVars, watcherVars, agentVars, ctlVars>>

\* connectInternal after its dial has succeeded: the socket is stored in
\* the conn field under connMu, the state is set to connected and reported,
\* and a new readPump is started; handleDisconnect and the old readPump
\* return.  The context is not looked at again.
connectInternalInstall ==
    /\ tunReader.pc = "install"
    /\ tunConn' = nextTunConn - 1
    /\ tunState' = "connected"
    /\ tunCallback' = [state |-> "connected", attempt |-> 0]
    /\ tunWaited' = 0
    /\ tunReader' = [pc |-> "read", attempt |-> 0]
    /\ UNCHANGED <<tunLive, tunClosed, tunInbox, tunHandlers, tunRecv, tunOut, nextReq,
                   nextTunConn, tunClosePc,
                   cfgVars, devVars, presenceVars, watcherVars, agentVars, ctlVars>>

\* handleRequest up to its call of sendResponse, on one of its paths.
handleRequest(h, path) ==
    /\ h \in tunHandlers /\ h.pc = "handle"
    /\ tunHandlers' = (tunHandlers \ {h})
          \cup {[h EXCEPT !.pc = "send", !.toSend = handleRequestResponses(path)]}
    /\ tunCallback' = NoCallback
    /\ tunWaited' = 0
    /\ UNCHANGED <<tunConn, tunLive, tunClosed, tunReader, tunState, tunInbox,
                   tunRecv, tunOut, nextReq, nextTunConn,
                   tunClosePc,
                   cfgVars, devVars, presenceVars, watcherVars, agentVars, ctlVars>>

\* sendResponse: under connMu the response is written to the socket the
\* conn field names now; it is dropped when the field is nil and lost when
\* the write fails.
sendResponse(h) ==
    /\ h \in tunHandlers /\ h.pc = "send"
    /\ tunOut' = IF tunConn \in tunLive /\ ~tunClosed
                 THEN [tunOut EXCEPT ![h.id] =
                          Append(@, [status |-> Head(h.toSend), conn |-> tunConn])]
                 ELSE tunOut
    /\ tunHandlers' = (tunHandlers \ {h})
          \cup (IF Len(h.toSend) > 1 THEN {[h EXCEPT !.toSend = Tail(@)]} ELSE {})
    /\ tunCallback' = NoCallback
    /\ tunWaited' = 0
    /\ UNCHANGED <<tunConn, tunLive, tunClosed, tunReader, tunState, tunInbox,
                   tunRecv, nextReq, nextTunConn,
                   tunClosePc,
                   cfgVars, devVars, presenceVars, watcherVars, agentVars, ctlVars>>

\* The tunnel socket's network path fails; what the relay wrote to it and
\* was not read is lost.
tunnelBreaks ==
    /\ tunConn \in tunLive
    /\ tunLive' = tunLive \ {tunConn}
    /\ tunInbox' = {m \in tunInbox : m.conn # tunConn}
    /\ tunCallback' = NoCallback
    /\ tunWaited' = 0
    /\ UNCHANGED <<tunConn, tunClosed, tunReader, tunState, tunHandlers,
                   tunRecv, tunOut, nextReq, nextTunConn,
                   tunClosePc,
                   cfgVars, devVars, presenceVars, watcherVars, agentVars, ctlVars>>

\* Close: the contexts are cancelled and the socket is closed and cleared.
tunnelClose ==
    /\ ~tunClosed
    /\ tunClosed' = TRUE
    /\ tunLive' = tunLive \ {tunConn}
    /\ tunInbox' = {m \in tunInbox : m.conn # tunConn}
    /\ tunConn' = 0
    /\ tunState' = "disconnected"
    /\ tunCallback' = NoCallback
    /\ tunWaited' = 0
    /\ tunClosePc' = "done"
    /\ UNCHANGED <<tunReader, tunHandlers, tunRecv, tunOut, nextReq, nextTunConn,
                   cfgVars, devVars, presenceVars, watcherVars, agentVars, ctlVars>>

\* Close, its first part: the contexts are cancelled and, under connMu, the
\* socket the conn field names is closed and the field cleared.
tunnelCloseCancel ==
    /\ ~tunClosed
    /\ tunClosed' = TRUE
    /\ tunLive' = tunLive \ {tunConn}
    /\ tunInbox' = {m \in tunInbox : m.conn # tunConn}
    /\ tunConn' = 0
    /\ tunCallback' = NoCallback
    /\ tunWaited' = 0
    /\ tunClosePc' = "wait"
    /\ UNCHANGED <<tunReader, tunState, tunHandlers, tunRecv, tunOut, nextReq, nextTunConn,
                   cfgVars, devVars, presenceVars, watcherVars, agentVars, ctlVars>>

\* Close, its second part: the read pump has returned (or was never
\* started and the 5 seconds have passed); the state is set to
\* disconnected without a call of the callback, and Close returns.
tunnelCloseReturns ==
    /\ tunClosePc = "wait"
    /\ tunReader.pc \in {"off", "stopped"}
    /\ tunState' = "disconnected"
    /\ tunCallback' = NoCallback
    /\ tunWaited' = 0
    /\ tunClosePc' = "done"
    /\ UNCHANGED <<tunConn, tunLive, tunClosed, tunReader, tunInbox, tunHandlers, tunRecv,
                   tunOut, nextReq, nextTunConn,
                   cfgVars, devVars, presenceVars, watcherVars, agentVars, ctlVars>>

(***************************************************************************)
(* The agent's handlers of one conversation, its executor, and the working *)
(* tree of the folder.  The client sends a prompt or a reprompt when the   *)
(* previous turn's coder has finished.                                     *)
(***************************************************************************)
Files == {"f1", "f2"}
ApprovalKeys == Files \cup {"x"}      \* "x" is a path that is no file of a diff

NoExec == [kind |-> "none", pc |-> "idle", path |-> <<>>, filesBeforeExec |-> {},
           turnCompleted |-> FALSE]
NoOp == [op |-> "none", by |-> "", approved |-> TRUE, unapproved |-> {}]

\* The goroutines that use the conversation map: the read pump running a
\* message handler, the goroutine startInteractiveExecution spawns, and the
\* coder's reader running the event callback.
Tasks == {"receiver", "execution", "reader"}
ErrorReply(by) == [op |-> "error", by |-> by, approved |-> TRUE, unapproved |-> {}]

InitAgent ==
    /\ interactiveMode = TRUE
    /\ hasState = FALSE
    /\ stFolderPath = <<>>
    /\ stFolderID = 0
    /\ pendingDiffs = [k \in ApprovalKeys |-> "absent"]
    /\ totalDiffs = 0
    /\ stFiles = {}
    /\ exec = NoExec
    /\ changedFiles = {}
    /\ diffOf = [f \in Files |-> "text"]
    /\ turns = 0
    /\ turnDiff = {}
    /\ lastOp = NoOp
    /\ mapUse = [t \in Tasks |-> "none"]
    /\ curReader = FALSE
    /\ replaced = 0
    /\ errored = FALSE
    /\ emitted = <<>>

\* DetectChangedFiles: the files with pending changes
DetectChangedFiles == changedFiles

\* The files handleCompletion puts in the diff event, given the snapshot
\* taken before the turn, the files changed now and each file's diff.  The
\* interactive executor skips a file whose diff is empty; the one-shot
\* executor keeps every file of F \ S.
DiffSet(kind, S, F, d) ==
    IF kind = "interactive"
    THEN {f \in F \ S : d[f] # "empty"}
    ELSE F \ S

\* trackDiffEvent: a file whose entry is absent or false is entered as
\* false, counted and appended to the files of the conversation.
trackDiffEvent(files) ==
    /\ pendingDiffs' = [k \in ApprovalKeys |->
                          IF k \in files /\ pendingDiffs[k] # "true"
                          THEN "false" ELSE pendingDiffs[k]]
    /\ totalDiffs' = totalDiffs + Cardinality({f \in files : pendingDiffs[f] # "true"})
    /\ stFiles' = stFiles \cup {f \in files : pendingDiffs[f] # "true"}

\* handleSettingsUpdate: the client sets the execution mode.
handleSettingsUpdate(mode) ==
    /\ interactiveMode' = mode
    /\ lastOp' = NoOp
    /\ emitted' = <<>>
    /\ UNCHANGED <<hasState, stFolderPath, stFolderID, pendingDiffs, totalDiffs, stFiles,
                   exec, changedFiles, diffOf, turns, turnDiff,
                   mapUse, curReader, replaced, errored,
                   cfgVars, devVars, presenceVars, watcherVars, ctlVars, tunVars>>

\* A file of the folder is changed, by the coder or by the user; kind is
\* what GenerateDiff will return for it.
fileChanges(f, kind) ==
    /\ f \notin changedFiles
    /\ changedFiles' = changedFiles \cup {f}
    /\ diffOf' = [diffOf EXCEPT ![f] = kind]
    /\ lastOp' = NoOp
    /\ emitted' = <<>>
    /\ UNCHANGED <<interactiveMode, hasState, stFolderPath, stFolderID, pendingDiffs,
                   totalDiffs, stFiles, exec, turns, turnDiff,
                   mapUse, curReader, replaced, errored,
                   cfgVars, devVars, presenceVars, watcherVars, ctlVars, tunVars>>

\* The executor the agent holds is replaced by a new one.  Nothing stops
\* the old executor: its coder process waits for input and its
\* streamOutput goroutine runs on, holding the event callback of the same
\* conversation.
Replace == IF curReader THEN replaced + 1 ELSE replaced

\* The events handleCompletion sends: complete alone without a diff,
\* otherwise the diff event and, unless the turn's complete event was sent
\* before, the complete event.
CompletionEvents(files, turnCompleted) ==
    IF files = {} THEN <<"complete">>
    ELSE IF turnCompleted THEN <<"diff">>
    ELSE <<"diff", "complete">>

\* handlePrompt: the folder id is looked up in the approved folders; an
\* unknown id is answered with an error.  Otherwise startOneShotExecution
\* or startInteractiveExecution creates the executor, the latter also the
\* conversation state, and ExecuteTask takes the snapshot of changed files.
handlePrompt(folderID) ==
    LET folderPath == FolderPathOf(folderID)
    IN  /\ turns < MaxTurns /\ exec.pc # "running"
        /\ IF folderPath = <<>>
           THEN /\ lastOp' = ErrorReply("prompt")
                /\ UNCHANGED <<hasState, stFolderPath, stFolderID, pendingDiffs, totalDiffs,
                               stFiles, exec, turns, turnDiff,
                               curReader, replaced, errored>>
           ELSE /\ replaced' = Replace
                /\ curReader' = interactiveMode
                /\ errored' = FALSE
                /\ exec' = [kind |-> IF interactiveMode THEN "interactive" ELSE "oneshot",
                            pc |-> "running", path |-> folderPath,
                            filesBeforeExec |-> DetectChangedFiles,
                            turnCompleted |-> FALSE]
                /\ turns' = turns + 1
                /\ turnDiff' = {}
                /\ lastOp' = [op |-> "run", by |-> "prompt",
                              approved |-> IsFolderApproved(folderPath),
                              unapproved |-> {}]
                /\ IF interactiveMode
                   THEN /\ hasState' = TRUE
                        /\ stFolderPath' = folderPath
                        /\ stFolderID' = folderID
                        /\ pendingDiffs' = [k \in ApprovalKeys |-> "absent"]
                        /\ totalDiffs' = 0
                        /\ stFiles' = {}
                   ELSE UNCHANGED <<hasState, stFolderPath, stFolderID, pendingDiffs,
                                    totalDiffs, stFiles>>
        /\ emitted' = <<>>
        /\ UNCHANGED <<interactiveMode, changedFiles, diffOf,
                       mapUse,
                       cfgVars, devVars, presenceVars, watcherVars, ctlVars, tunVars>>

\* The coder's result arrives and handleCompletion runs.  Without new
\* files, or in the interactive executor without a non-empty diff, only a
\* complete event is sent.  Otherwise the diff event is sent, which the
\* agent's event handler tracks in the conversation state when there is
\* one, and then the complete event: by the interactive executor through
\* sendCompleteEvent, which sets turnCompleted, by the one-shot executor
\* because the agent creates it without approval.
handleCompletion ==
    LET S == exec.filesBeforeExec
        F == DetectChangedFiles
        files == DiffSet(exec.kind, S, F, diffOf)
    IN  /\ exec.pc = "running"
        /\ exec' = [exec EXCEPT !.pc = "done",
                                !.turnCompleted =
                                    @ \/ (exec.kind = "interactive" /\ files # {})]
        /\ turnDiff' = files
        /\ IF files # {} /\ hasState
           THEN trackDiffEvent(files)
           ELSE UNCHANGED <<pendingDiffs, totalDiffs, stFiles>>
        /\ lastOp' = NoOp
        /\ emitted' = CompletionEvents(files, exec.turnCompleted)
        /\ UNCHANGED <<interactiveMode, hasState, stFolderPath, stFolderID, changedFiles,
                       diffOf, turns,
                       mapUse, curReader, replaced, errored,
                       cfgVars, devVars, presenceVars, watcherVars, ctlVars, tunVars>>

\* handleDiffApproved: without a conversation state nothing happens.
\* Otherwise the entry of the named path becomes true, and when the entries
\* that are true number at least totalDiffs, ContinueAfterApproval commits
\* in the folder of the state's executor.
handleDiffApproved(filePath) ==
    LET pending == [pendingDiffs EXCEPT ![filePath] = "true"]
        approvedCount == Cardinality({k \in ApprovalKeys : pending[k] = "true"})
    IN  /\ hasState
        /\ pendingDiffs' = pending
        /\ IF approvedCount >= totalDiffs
           THEN /\ lastOp' = [op |-> "commit", by |-> "diff_approved",
                              approved |-> IsFolderApproved(stFolderPath),
                              unapproved |-> {f \in turnDiff : pending[f] # "true"}]
                /\ changedFiles' = {}
                /\ diffOf' = [f \in Files |-> "text"]
           ELSE /\ lastOp' = NoOp
                /\ UNCHANGED <<changedFiles, diffOf>>
        /\ emitted' = <<>>
        /\ UNCHANGED <<interactiveMode, hasState, stFolderPath, stFolderID, totalDiffs,
                       stFiles, exec, turns, turnDiff,
                       mapUse, curReader, replaced, errored,
                       cfgVars, devVars, presenceVars, watcherVars, ctlVars, tunVars>>

\* handleApproval: without a conversation state an error is sent.
\* Otherwise the folder path stored in the state is used: on approval
\* everything is committed, on rejection the files of the conversation are
\* discarded; then the conversation state is deleted.
handleApproval(approved) ==
    /\ IF ~hasState
       THEN /\ lastOp' = ErrorReply("approval")
            /\ UNCHANGED <<changedFiles, diffOf>>
       ELSE IF approved
       THEN /\ lastOp' = [op |-> "commit", by |-> "approval",
                          approved |-> IsFolderApproved(stFolderPath),
                          unapproved |-> {}]
            /\ changedFiles' = {}
            /\ diffOf' = [f \in Files |-> "text"]
       ELSE /\ lastOp' = IF stFiles = {} THEN NoOp
                         ELSE [op |-> "discard", by |-> "approval",
                               approved |-> IsFolderApproved(stFolderPath),
                               unapproved |-> {}]
            /\ changedFiles' = changedFiles \ stFiles
            /\ diffOf' = [f \in Files |-> IF f \in stFiles THEN "text" ELSE diffOf[f]]
    /\ hasState' = FALSE
    /\ stFolderPath' = <<>>
    /\ stFolderID' = 0
    /\ pendingDiffs' = [k \in ApprovalKeys |-> "absent"]
    /\ totalDiffs' = 0
    /\ stFiles' = {}
    /\ emitted' = <<>>
    /\ UNCHANGED <<interactiveMode, exec, turns, turnDiff,
                   mapUse, curReader, replaced, errored,
                   cfgVars, devVars, presenceVars, watcherVars, ctlVars, tunVars>>

\* handleReprompt: without a conversation state an error is sent.
\* Otherwise the approvals are cleared and a new interactive executor runs
\* the coder in the folder path stored in the state.
handleReprompt ==
    /\ IF ~hasState
       THEN /\ lastOp' = ErrorReply("reprompt")
            /\ UNCHANGED <<pendingDiffs, totalDiffs, exec, turns, turnDiff,
                           curReader, replaced, errored>>
       ELSE /\ turns < MaxTurns /\ exec.pc # "running"
            /\ replaced' = Replace
            /\ curReader' = TRUE
            /\ errored' = FALSE
            /\ pendingDiffs' = [k \in ApprovalKeys |-> "absent"]
            /\ totalDiffs' = 0
            /\ exec' = [kind |-> "interactive", pc |-> "running", path |-> stFolderPath,
                        filesBeforeExec |-> DetectChangedFiles,
                        turnCompleted |-> FALSE]
            /\ turns' = turns + 1
            /\ turnDiff' = {}
            /\ lastOp' = [op |-> "run", by |-> "reprompt",
                          approved |-> IsFolderApproved(stFolderPath),
                          unapproved |-> {}]
    /\ emitted' = <<>>
    /\ UNCHANGED <<interactiveMode, hasState, stFolderPath, stFolderID, stFiles,
                   changedFiles, diffOf,
                   mapUse,
                   cfgVars, devVars, presenceVars, watcherVars, ctlVars, tunVars>>

\* The messages of the coder's output stream other than result, each with
\* one content block.  ok says, for a text block, that the parser finds a
\* decision in it; for a tool_use block, that its input parses and holds a
\* question, respectively a plan.
ToolNames == {"Edit", "AskUserQuestion", "ExitPlanMode"}
StreamMessages ==
    [type : {"text"}, name : {""}, ok : BOOLEAN]
    \cup [type : {"tool_use"}, name : ToolNames, ok : BOOLEAN]
    \cup [type : {"system", "error"}, name : {""}, ok : {TRUE}]

\* The events streamOutput sends for such a message.  For a tool_use block
\* the tool_use event is sent first, whatever the tool's name; a decision
\* event follows for AskUserQuestion and ExitPlanMode with a usable input.
\* handleStreamMessage returns an error for an error message and
\* streamOutput sends it as an error event.
BlockEvents(m) ==
    CASE m.type = "text" -> <<"thinking">> \o (IF m.ok THEN <<"decision">> ELSE <<>>)
      [] m.type = "tool_use" ->
            <<"tool_use">>
            \o (IF m.name \in {"AskUserQuestion", "ExitPlanMode"} /\ m.ok
                THEN <<"decision">> ELSE <<>>)
      [] m.type = "error" -> <<"error">>
      [] OTHER -> <<>>

\* streamOutput reads a line of the coder of the executor the agent holds,
\* during a turn, and handleStreamMessage handles it.  After an error
\* message the loop goes on to the next line.
handleStreamMessage(m) ==
    /\ curReader
    /\ exec.kind = "interactive" /\ exec.pc = "running"
    /\ emitted' = BlockEvents(m)
    /\ errored' = (errored \/ m.type = "error")
    /\ lastOp' = NoOp
    /\ UNCHANGED <<interactiveMode, hasState, stFolderPath, stFolderID, pendingDiffs,
                   totalDiffs, stFiles, exec, changedFiles, diffOf, turns, turnDiff,
                   mapUse, curReader, replaced,
                   cfgVars, devVars, presenceVars, watcherVars, ctlVars, tunVars>>

\* The coder process of the executor the agent holds exits: the scanner of
\* streamOutput ends and handleCompletion runs once more.
streamEnds ==
    LET files == DiffSet("interactive", exec.filesBeforeExec, DetectChangedFiles, diffOf)
    IN  /\ curReader
        /\ exec.kind = "interactive"
        /\ curReader' = FALSE
        /\ emitted' = CompletionEvents(files, exec.turnCompleted)
        /\ exec' = [exec EXCEPT !.pc = "done", !.turnCompleted = @ \/ files # {}]
        /\ turnDiff' = files
        /\ IF files # {} /\ hasState
           THEN trackDiffEvent(files)
           ELSE UNCHANGED <<pendingDiffs, totalDiffs, stFiles>>
        /\ lastOp' = NoOp
        /\ UNCHANGED <<interactiveMode, hasState, stFolderPath, stFolderID, changedFiles,
                       diffOf, turns, mapUse, replaced, errored,
                       cfgVars, devVars, presenceVars, watcherVars, ctlVars, tunVars>>

\* The messages a handler sends after its commit has succeeded:
\* handleApproval sends commit_success; handleDiffApproved, through
\* ContinueAfterApproval, sends nothing (the complete event of the turn was
\* sent by handleCompletion, before the approvals).
CommitSends(by) ==
    IF by = "approval" THEN <<"commit_success">> ELSE <<>>

\* A diff set of the conversation awaits approval
PendingApproval ==
    hasState /\ \E k \in ApprovalKeys : pendingDiffs[k] = "false"

\* handleChoice: without an executor an error is sent.  For an interactive
\* executor the choice is written to the coder's stdin by SendMessage,
\* which fails when the coder process has exited (alive is false);
\* otherwise the coder goes on with the turn, which counts as a run when
\* the coder was waiting.  For a one-shot executor a mock completion is
\* sent.
handleChoice(alive) ==
    /\ IF exec.kind = "none"
       THEN /\ lastOp' = ErrorReply("choice")
            /\ UNCHANGED exec
       ELSE IF exec.kind = "interactive"
       THEN IF alive
            THEN /\ exec.pc # "running" => turns < MaxTurns
                 /\ exec' = [exec EXCEPT !.pc = "running"]
                 /\ lastOp' = [op |-> "input", by |-> "choice", approved |-> TRUE,
                               unapproved |-> {}]
            ELSE /\ exec.pc # "running"
                 /\ lastOp' = ErrorReply("choice")
                 /\ UNCHANGED exec
       ELSE /\ lastOp' = NoOp
            /\ UNCHANGED exec
    /\ turns' = IF exec'.pc = "running" /\ exec.pc # "running" THEN turns + 1 ELSE turns
    /\ emitted' = <<>>
    /\ UNCHANGED <<interactiveMode, hasState, stFolderPath, stFolderID, pendingDiffs,
                   totalDiffs, stFiles, changedFiles, diffOf, turnDiff,
                   mapUse, curReader, replaced, errored,
                   cfgVars, devVars, presenceVars, watcherVars, ctlVars, tunVars>>

\* A task starts an operation on the conversation map or on the pending
\* diffs of a conversation.  No lock is taken before it: the Agent has no
\* mutex for conversationStates.  The receiver looks a conversation up,
\* stores or deletes it and marks a diff approved in any handler; the
\* execution goroutine deletes the conversation when ExecuteTask has
\* failed; the reader looks the conversation up and tracks a diff event
\* while the coder runs.
mapEnter(t, kind) ==
    /\ mapUse[t] = "none"
    /\ t = "execution" => (exec.kind = "interactive" /\ kind = "write")
    /\ t = "reader" => (exec.kind = "interactive" /\ exec.pc = "running")
    /\ mapUse' = [mapUse EXCEPT ![t] = kind]
    /\ UNCHANGED <<interactiveMode, hasState, stFolderPath, stFolderID, pendingDiffs,
                   totalDiffs, stFiles, exec, changedFiles, diffOf, turns, turnDiff,
                   lastOp, streamVars, cfgVars, devVars, presenceVars, watcherVars, ctlVars, tunVars>>

\* The operation ends.
mapLeave(t) ==
    /\ mapUse[t] # "none"
    /\ mapUse' = [mapUse EXCEPT ![t] = "none"]
    /\ UNCHANGED <<interactiveMode, hasState, stFolderPath, stFolderID, pendingDiffs,
                   totalDiffs, stFiles, exec, changedFiles, diffOf, turns, turnDiff,
                   lastOp, streamVars, cfgVars, devVars, presenceVars, watcherVars, ctlVars, tunVars>>

(***************************************************************************)
(* The state after construction.                                           *)
(***************************************************************************)
(***************************************************************************)
(* The dev servers of the preview, for the folder PreviewFolder.           *)
(* Manager.Start holds m.mu only while it looks the folder up; the port    *)
(* probe, the spawn of the child and the store of the new server come      *)
(* afterwards, each under no lock or under a fresh hold of m.mu.           *)
(* The callers of Start are the handlers of preview_start, which the read  *)
(* pumps of the control channel run.                                       *)
(***************************************************************************)
PreviewFolder == 1
Servers == 1..MaxServers
Starters == {"pump1", "pump2"}
IdleStart == [pc |-> "idle", srv |-> 0]
NoOut == [kind |-> "none", srv |-> 0, what |-> ""]

InitDev ==
    /\ dsEntry = 0
    /\ dsState = [x \in Servers |-> "none"]
    /\ dsChildren = {}
    /\ dsStart = [s \in Starters |-> IdleStart]
    /\ dsMon = [x \in Servers |-> "none"]
    /\ nextServer = 1
    /\ stopCall = IdleStart
    /\ dsOut = NoOut

\* the test of Start under m.mu: the folder has a server that is running or
\* starting
ServerActive == dsEntry # 0 /\ dsState[dsEntry] \in {"running", "starting"}

\* Start, under m.mu: hand back the existing server, or drop a failed or
\* stopped one and go on.  handlePreviewStart calls it for a folder of the
\* configuration that has no connected tunnel.
StartLookup(s) ==
    /\ dsStart[s].pc = "idle"
    /\ PreviewFolder \in ApprovedIds
    /\ tunState # "connected"
    /\ IF ServerActive
       THEN /\ dsStart' = [dsStart EXCEPT ![s] = [pc |-> "idle", srv |-> dsEntry]]
            /\ UNCHANGED dsEntry
       ELSE /\ dsStart' = [dsStart EXCEPT ![s] = [pc |-> "probe", srv |-> 0]]
            /\ dsEntry' = 0
    /\ dsOut' = NoOut
    /\ UNCHANGED <<dsState, dsChildren, dsMon, nextServer,
                   stopCall,
                   cfgVars, presenceVars, watcherVars, agentVars, ctlVars, tunVars>>

\* Start, after m.mu is released: a port in use is taken for a running
\* server and stored without a child; a missing dependency or an unknown
\* project type is an error; otherwise the child is spawned.
StartSpawn(s, inUse, ok) ==
    /\ dsStart[s].pc = "probe"
    /\ nextServer <= MaxServers
    /\ IF inUse
       THEN /\ dsState' = [dsState EXCEPT ![nextServer] = "running"]
            /\ dsEntry' = nextServer
            /\ nextServer' = nextServer + 1
            /\ dsStart' = [dsStart EXCEPT ![s] = [pc |-> "idle", srv |-> nextServer]]
            /\ UNCHANGED dsChildren
       ELSE IF ~ok
       THEN /\ dsStart' = [dsStart EXCEPT ![s] = IdleStart]
            /\ UNCHANGED <<dsState, dsEntry, nextServer, dsChildren>>
       ELSE /\ dsState' = [dsState EXCEPT ![nextServer] = "starting"]
            /\ dsChildren' = dsChildren \cup {nextServer}
            /\ nextServer' = nextServer + 1
            /\ dsStart' = [dsStart EXCEPT ![s] = [pc |-> "store", srv |-> nextServer]]
            /\ UNCHANGED dsEntry
    /\ dsOut' = NoOut
    /\ UNCHANGED <<dsMon, stopCall,
                   cfgVars, presenceVars, watcherVars, agentVars, ctlVars, tunVars>>

\* Start, under m.mu again: store the server and start its monitor.
StartStore(s) ==
    /\ dsStart[s].pc = "store"
    /\ dsEntry' = dsStart[s].srv
    /\ dsMon' = [dsMon EXCEPT ![dsStart[s].srv] = "wait"]
    /\ dsStart' = [dsStart EXCEPT ![s] = [pc |-> "idle", srv |-> dsStart[s].srv]]
    /\ dsOut' = NoOut
    /\ UNCHANGED <<dsState, dsChildren, nextServer,
                   stopCall,
                   cfgVars, presenceVars, watcherVars, agentVars, ctlVars, tunVars>>

\* The child process of server x exits by itself.
childExits(x) ==
    /\ x \in dsChildren
    /\ dsChildren' = dsChildren \ {x}
    /\ dsOut' = NoOut
    /\ UNCHANGED <<dsEntry, dsState, dsStart, dsMon, nextServer,
                   stopCall,
                   cfgVars, presenceVars, watcherVars, agentVars, ctlVars, tunVars>>

\* monitorProcess: Cmd.Wait returns and the state is set under server.mu.
\* wasRunning decides whether the callback will be called after the delete,
\* and the state just set is what it will be called with.
monitorProcessWait(x, failed) ==
    /\ dsMon[x] = "wait"
    /\ x \notin dsChildren
    /\ dsState' = [dsState EXCEPT ![x] = IF failed THEN "failed" ELSE "stopped"]
    /\ dsMon' = [dsMon EXCEPT ![x] = IF dsState[x] # "running" THEN "delete"
                                     ELSE IF failed THEN "notifyFailed"
                                     ELSE "notifyStopped"]
    /\ dsOut' = NoOut
    /\ UNCHANGED <<dsEntry, dsChildren, dsStart, nextServer,
                   stopCall,
                   cfgVars, presenceVars, watcherVars, agentVars, ctlVars, tunVars>>

\* monitorProcess: delete(m.servers, server.FolderID) under m.mu, and then
\* the state-change callback when the server was running.
monitorProcessDelete(x) ==
    /\ dsMon[x] \in {"delete", "notifyFailed", "notifyStopped"}
    /\ dsEntry' = 0
    /\ dsMon' = [dsMon EXCEPT ![x] = "done"]
    /\ dsOut' = IF dsMon[x] = "delete" THEN NoOut
                ELSE [kind |-> "callback", srv |-> x,
                      what |-> IF dsMon[x] = "notifyFailed" THEN "failed" ELSE "stopped"]
    /\ UNCHANGED <<dsState, dsChildren, dsStart, nextServer,
                   stopCall,
                   cfgVars, presenceVars, watcherVars, agentVars, ctlVars, tunVars>>

\* MarkRunning, called by handlePreviewStart when the port answers.
MarkRunning ==
    /\ dsEntry # 0
    /\ dsState[dsEntry] = "starting"
    /\ dsState' = [dsState EXCEPT ![dsEntry] = "running"]
    /\ dsOut' = NoOut
    /\ UNCHANGED <<dsEntry, dsChildren, dsStart, dsMon, nextServer,
                   stopCall,
                   cfgVars, presenceVars, watcherVars, agentVars, ctlVars, tunVars>>

\* GetState for the folder: stopped when the map has no entry, else the
\* State field of the server stored
GetState == IF dsEntry = 0 THEN "stopped" ELSE dsState[dsEntry]

\* Stop as one step: the server of the folder is marked stopping and its
\* child is killed and waited for, then the entry is deleted.  A server without a
\* child (stored for a port in use) stays in the map.
Stop ==
    /\ stopCall.pc = "idle"
    /\ dsEntry # 0
    /\ dsState[dsEntry] \notin {"stopping", "stopped"}
    /\ dsState' = [dsState EXCEPT ![dsEntry] = "stopping"]
    /\ dsChildren' = dsChildren \ {dsEntry}
    /\ dsEntry' = IF dsMon[dsEntry] = "none" THEN dsEntry ELSE 0
    /\ dsOut' = NoOut
    /\ UNCHANGED <<dsStart, dsMon, nextServer,
                   stopCall,
                   cfgVars, presenceVars, watcherVars, agentVars, ctlVars, tunVars>>

\* Stop, step by step.  First the server of the folder is looked up and
\* marked stopping; a server that is stopping or stopped is left alone.
StopMark ==
    /\ stopCall.pc = "idle"
    /\ dsEntry # 0
    /\ dsState[dsEntry] \notin {"stopping", "stopped"}
    /\ dsState' = [dsState EXCEPT ![dsEntry] = "stopping"]
    /\ stopCall' = [pc |-> "cancel", srv |-> dsEntry]
    /\ dsOut' = NoOut
    /\ UNCHANGED <<dsEntry, dsChildren, dsStart, dsMon, nextServer,
                   cfgVars, presenceVars, watcherVars, agentVars, ctlVars, tunVars>>

\* Stop: server.cancel() cancels the context the command was created with;
\* a server without a command (stored for a port in use) ends the call.
StopCancel ==
    /\ stopCall.pc = "cancel"
    /\ stopCall' = IF dsMon[stopCall.srv] = "none" THEN IdleStart
                   ELSE [stopCall EXCEPT !.pc = "signal"]
    /\ dsOut' = NoOut
    /\ UNCHANGED <<dsEntry, dsState, dsChildren, dsStart, dsMon, nextServer,
                   cfgVars, presenceVars, watcherVars, agentVars, ctlVars, tunVars>>

\* The context of server x is cancelled
ContextCancelled(x) == stopCall.srv = x /\ stopCall.pc \in {"signal", "wait", "delete"}

\* exec.CommandContext: once the context is done, the command's watcher
\* kills the child process.
contextKill(x) ==
    /\ ContextCancelled(x)
    /\ x \in dsChildren
    /\ dsChildren' = dsChildren \ {x}
    /\ dsOut' = [kind |-> "signal", srv |-> x, what |-> "kill"]
    /\ UNCHANGED <<dsEntry, dsState, dsStart, dsMon, nextServer, stopCall,
                   cfgVars, presenceVars, watcherVars, agentVars, ctlVars, tunVars>>

\* Stop: the terminate signal is sent to the process group.
StopTerminate ==
    /\ stopCall.pc = "signal"
    /\ stopCall' = [stopCall EXCEPT !.pc = "wait"]
    /\ dsOut' = IF stopCall.srv \in dsChildren
                THEN [kind |-> "signal", srv |-> stopCall.srv, what |-> "terminate"]
                ELSE NoOut
    /\ UNCHANGED <<dsEntry, dsState, dsChildren, dsStart, dsMon, nextServer,
                   cfgVars, presenceVars, watcherVars, agentVars, ctlVars, tunVars>>

\* Stop: the child has exited within the 5 seconds.
StopDone ==
    /\ stopCall.pc = "wait"
    /\ stopCall.srv \notin dsChildren
    /\ stopCall' = [stopCall EXCEPT !.pc = "delete"]
    /\ dsOut' = NoOut
    /\ UNCHANGED <<dsEntry, dsState, dsChildren, dsStart, dsMon, nextServer,
                   cfgVars, presenceVars, watcherVars, agentVars, ctlVars, tunVars>>

\* Stop: the 5 seconds have passed and the child is alive: the process
\* group is killed.
StopGraceOver ==
    /\ stopCall.pc = "wait"
    /\ stopCall.srv \in dsChildren
    /\ dsChildren' = dsChildren \ {stopCall.srv}
    /\ stopCall' = [stopCall EXCEPT !.pc = "delete"]
    /\ dsOut' = [kind |-> "signal", srv |-> stopCall.srv, what |-> "kill"]
    /\ UNCHANGED <<dsEntry, dsState, dsStart, dsMon, nextServer,
                   cfgVars, presenceVars, watcherVars, agentVars, ctlVars, tunVars>>

\* Stop: the entry of the folder is deleted.
StopDelete ==
    /\ stopCall.pc = "delete"
    /\ dsEntry' = 0
    /\ stopCall' = IdleStart
    /\ dsOut' = NoOut
    /\ UNCHANGED <<dsState, dsChildren, dsStart, dsMon, nextServer,
                   cfgVars, presenceVars, watcherVars, agentVars, ctlVars, tunVars>>

(***************************************************************************)
(* Client presence.  The relay tells the agent when a mobile or a web      *)
(* client comes and goes; the handler of the presence message runs on the  *)
(* read pump.  The watcher's callbacks run on the watcher's goroutines:    *)
(* each tests hasActiveClients on entry, then builds its message and sends *)
(* it.  Handlers of client requests send their answers without that test.  *)
(***************************************************************************)
Broadcasts == {"external_session_detected", "external_session_updated",
               "external_session_ended"}
Requests == {"get_external_sessions", "folder_select"}
NothingSent == [req |-> "none", msg |-> "none"]

InitPresence ==
    /\ mobileOnline = FALSE
    /\ webOnline = FALSE
    /\ notifier = [b \in Broadcasts |-> "idle"]
    /\ lastSent = NothingSent

hasActiveClients == mobileOnline \/ webOnline

\* handlePresenceUpdate
handlePresenceUpdate(deviceType, online) ==
    /\ mobileOnline' = IF deviceType = "mobile" THEN online ELSE mobileOnline
    /\ webOnline' = IF deviceType = "web" THEN online ELSE webOnline
    /\ lastSent' = NothingSent
    /\ UNCHANGED <<notifier, cfgVars, devVars, watcherVars, agentVars, ctlVars, tunVars>>

\* A watcher callback starts: without active clients it returns.
externalSessionCallback(b) ==
    /\ notifier[b] = "idle"
    /\ notifier' = [notifier EXCEPT ![b] = IF hasActiveClients THEN "send" ELSE "idle"]
    /\ lastSent' = NothingSent
    /\ UNCHANGED <<mobileOnline, webOnline,
                   cfgVars, devVars, watcherVars, agentVars, ctlVars, tunVars>>

\* The callback sends its message on the control channel.
externalSessionSend(b) ==
    /\ notifier[b] = "send"
    /\ notifier' = [notifier EXCEPT ![b] = "idle"]
    /\ lastSent' = [req |-> "none", msg |-> b]
    /\ UNCHANGED <<mobileOnline, webOnline,
                   cfgVars, devVars, watcherVars, agentVars, ctlVars, tunVars>>

\* The handler of a client request sends its answer.
handleRequestMessage(r) ==
    /\ lastSent' = [req |-> r, msg |-> "response"]
    /\ UNCHANGED <<mobileOnline, webOnline, notifier,
                   cfgVars, devVars, watcherVars, agentVars, ctlVars, tunVars>>

Init ==
    InitCfg /\ InitWatcher /\ InitCtl /\ InitTunnel /\ InitAgent /\ InitDev /\ InitPresence

(***************************************************************************)
(* The watcher's specification: one session log of folder PathA, the two   *)
(* goroutines that tail it, the debounce timers, and the folder handlers   *)
(* acting on PathA.                                                        *)
(***************************************************************************)
NextWatcher ==
    \/ \E f \in LogFiles, b \in {"m", "c", "nl"} : AppendLog(f, b)
    \/ \E f \in LogFiles : handleFileModified(f)
    \/ pollForChanges
    \/ \E f \in LogFiles : pollCheckFile(f)
    \/ \E g \in Goroutines : readNewLines(g)
    \/ \E g \in Goroutines : setPosition(g)
    \/ scanForNewSessions
    \/ \E t \in timers : timerFires(t)
    \/ \E t \in timers : sendSessionUpdate(t)
    \/ Tick
    \/ handleFolderAdd(PathA)
    \/ handleFolderRemove(PathA)
    \/ \E saved \in BOOLEAN : handleFolderAddRequest(PathA, saved)
    \/ \E id \in 1..MaxFolderId, saved \in BOOLEAN : handleFolderRemoveRequest(id, saved)

SpecWatcher == Init /\ [][NextWatcher]_vars

\* The tailing of a log alone: the notify handler, the poller and the
\* debounce timers, while the approved folders stay as they are.
NextTail ==
    \/ \E f \in LogFiles, b \in {"m", "c", "nl"} : AppendLog(f, b)
    \/ \E f \in LogFiles : handleFileModified(f)
    \/ pollForChanges
    \/ \E f \in LogFiles : pollCheckFile(f)
    \/ \E g \in Goroutines : readNewLines(g)
    \/ \E g \in Goroutines : setPosition(g)
    \/ scanForNewSessions
    \/ \E t \in timers : timerFires(t)
    \/ \E t \in timers : sendSessionUpdate(t)
    \/ Tick

SpecTail == Init /\ [][NextTail]_vars

\* The control channel alone: the goroutines that connect, the pumps, the
\* network and Close.
NextControl ==
    \/ ConnectWithRetry
    \/ \E p \in Connectors : retryDelayOver(p)
    \/ \E p \in Connectors : connectLocked(p)
    \/ \E p \in Connectors : pumpsDrained(p)
    \/ \E p \in Connectors : pumpsTimeout(p)
    \/ \E p \in Connectors : waitCancelled(p)
    \/ \E p \in Connectors : dialOk(p)
    \/ \E p \in Connectors : dialFails(p)
    \/ \E l \in LoopSlots : reconnectLoopReturns(l)
    \/ \E pm \in pumps, seesCurrent \in BOOLEAN : readPumpLoop(pm, seesCurrent)
    \/ \E pm \in pumps : readPumpMessage(pm)
    \/ \E pm \in pumps : readPumpError(pm)
    \/ \E pm \in pumps : handlerReturns(pm)
    \/ \E pm \in pumps : writePumpSelect(pm)
    \/ \E pm \in pumps : writePumpPinged(pm)
    \/ connBreaks
    \/ closeCancel
    \/ closePumpCancel
    \/ closeConn

SpecControl == Init /\ [][NextControl]_vars

\* The control channel with one task that sends on it, through connects,
\* failures, reconnects and Close.
NextSend ==
    \/ NextControl
    \/ SendMessage("router")
    \/ sendCheck("router")
    \/ sendWriteReturns("router")

SpecSend == Init /\ [][NextSend]_vars

\* Two tasks that send while the first connection is made and stays up,
\* its reader and keepalive running.
NextWriters ==
    \/ ConnectWithRetry
    \/ retryDelayOver("main")
    \/ connectLocked("main")
    \/ dialOk("main")
    \/ dialFails("main")
    \/ \E pm \in pumps : readPumpLoop(pm, TRUE)
    \/ \E pm \in pumps : readPumpMessage(pm)
    \/ \E pm \in pumps : handlerReturns(pm)
    \/ \E pm \in pumps : writePumpSelect(pm)
    \/ \E pm \in pumps : writePumpPinged(pm)
    \/ \E s \in Senders : SendMessage(s)
    \/ \E s \in Senders : sendCheck(s)
    \/ \E s \in Senders : sendWriteReturns(s)

SpecWriters == Init /\ [][NextWriters]_vars

\* The preview tunnel alone: the relay, the read pump, the request
\* handlers, reconnection and Close.
NextTunnel ==
    \/ \E ok \in BOOLEAN : tunnelConnect(ok)
    \/ relayWrites
    \/ \E m \in tunInbox : tunnelReadPump(m)
    \/ tunnelReadPumpReturns
    \/ tunnelReadError
    \/ \E ok \in BOOLEAN : handleDisconnect(ok)
    \/ \E h \in tunHandlers, path \in HandlingPaths : handleRequest(h, path)
    \/ \E h \in tunHandlers : sendResponse(h)
    \/ tunnelBreaks
    \/ tunnelClose

SpecTunnel == Init /\ [][NextTunnel]_vars

\* The agent's conversation handlers, the coder, the working tree, and the
\* tray adding and removing the folder.
NextAgent ==
    \/ \E mode \in BOOLEAN : handleSettingsUpdate(mode)
    \/ \E f \in Files, kind \in {"text", "empty"} : fileChanges(f, kind)
    \/ \E id \in 1..MaxFolderId : handlePrompt(id)
    \/ handleCompletion
    \/ \E k \in ApprovalKeys : handleDiffApproved(k)
    \/ \E approved \in BOOLEAN : handleApproval(approved)
    \/ handleReprompt
    \/ handleFolderAdd(PathA)
    \/ handleFolderRemove(PathA)

SpecAgent == Init /\ [][NextAgent]_vars

\* The same with the client's answers to the coder's questions.
NextChoice ==
    \/ NextAgent
    \/ \E alive \in BOOLEAN : handleChoice(alive)

SpecChoice == Init /\ [][NextChoice]_vars

(***************************************************************************)
(* Claims about the watcher.                                               *)
(***************************************************************************)
\* C7: for a tracked session log the recorded offset never decreases and
\* never exceeds the current size of the file, under every interleaving of
\* the notify handler and the poller.
C7_OffsetMonotoneWithinSize ==
    [][\A f \in LogFiles :
          /\ (filePositions[f] # -1 /\ filePositions'[f] # -1)
                => filePositions'[f] >= filePositions[f]
          /\ filePositions'[f] <= Len(logContent'[f])]_vars

\* C8: the updates of one session that fall within one debounce window
\* yield exactly one OnSessionUpdated call, made when the timer of the last
\* of them has expired: the timer of an earlier update of the burst never
\* makes the call.
C8_OneCallPerBurst ==
    [][\A t \in timers :
          (t.fired /\ t \notin timers' /\ sessions[t.sid].exists) => ~t.stale]_vars

\* C10: once a folder is dropped from the approved set, by either removal
\* path, a line appended to a session log of that folder is not recorded as
\* a message and causes no OnSessionUpdated call.
C10_NoRecordAfterDrop ==
    [][/\ \A g \in Goroutines :
             (rd[g].pc = "read" /\ rd'[g].pc = "setpos")
                => LateMessages(rd[g].file, rd[g].pos) = 0
       /\ \A t \in timers :
             (t.fired /\ t \notin timers' /\ sessions[t.sid].exists
                /\ ~IsFolderApproved(sessions[t.sid].ProjectPath))
                => ~t.late]_vars

\* C14: the notify handler and the poller are never both inside
\* readNewLines for the same session log.
C14_OneReaderPerLog ==
    \A g, h \in Goroutines :
        (rd[g].pc # "idle" /\ rd[h].pc # "idle" /\ rd[g].file = rd[h].file) => g = h

(***************************************************************************)
(* Claims about the control channel.                                       *)
(***************************************************************************)

\* C4: at most one reconnect loop runs at any time, however many pumps call
\* triggerReconnect and whatever the connection does.
C4_OneReconnectLoop == Cardinality(RunningLoops) <= 1

\* A reconnect loop is running, the client is not shutting down, and both
\* pumps of the lost connection have returned, so each has called
\* triggerReconnect.
C4_Witness ==
    /\ Cardinality(RunningLoops) = 1
    /\ ~ctlClosed /\ pumpGen > 0 /\ pumps = {} /\ pumpWg = 0

\* a connect has completed and no goroutine is inside connectLocked
ConnectComplete ==
    /\ connected
    /\ \A p \in Connectors : cpc[p] \notin {"wait", "dial"}

\* C5: once a connect has completed, no reader or keepalive of an earlier
\* connection is reading, pinging or waiting to ping, and the connection has
\* at most one reader and one keepalive, also after the 2-second timeout.
C5_NoPumpOfPriorConnection ==
    ConnectComplete =>
        /\ \A pm \in pumps :
              pm.pc \in {"reading", "pinging", "select"} => pm.id = pumpGen
        /\ \A k \in {"read", "write"} :
              Cardinality({pm \in pumps : pm.kind = k /\ pm.conn = wsConn
                                          /\ pm.pc \in {"reading", "pinging", "select"}}) <= 1

\* C15: the exit of a reader or keepalive whose pump context the reconnect
\* procedure cancelled starts no reconnect loop, also when it exits after
\* the 2-second timeout with the new connection established.
C15_CancelledPumpStartsNoLoop ==
    [][\A pm \in pumps :
          (pm \notin pumps' /\ pumpWg' < pumpWg /\ pm.ctx \in cancelledGens)
             => RunningLoops' \subseteq RunningLoops]_vars

\* C11: a send that begins while the control channel is disconnected, and
\* finds it disconnected still at its check, returns "not connected": it
\* does not go on to write on a socket.
C11_SendFailsWhenDisconnected ==
    [][\A s \in Senders :
          (senders[s].pc = "check" /\ senders[s].disc /\ Disconnected)
             => senders'[s].pc # "write"]_vars

C6_AtMostOneResponse ==
    \A r \in 1..MaxReqs : Len(tunOut[r]) <= 1

\* A request read from one socket was answered, after a reconnect, on the
\* next socket, by the error response of a failing path.
C6_Witness ==
    \E r \in 1..MaxReqs :
        /\ Len(tunOut[r]) = 1
        /\ tunRecv[r] # 0 /\ tunOut[r][1].conn # tunRecv[r]
        /\ tunOut[r][1].status = 502

\* C16: once Close() was called, also during a reconnect backoff, the
\* state-change callback is not invoked and no preview status is sent.
C16_CloseNotReported ==
    tunClosed => (tunCallback = NoCallback /\ PreviewStatus(tunCallback) = "none")

\* C17: every step into reconnecting, every successful reconnection and
\* the final give-up sends the matching preview status.
C17_StateChangesForwarded ==
    [][/\ (tunReader'.pc = "backoff" /\ tunReader' # tunReader)
            => PreviewStatus(tunCallback') = "reconnecting"
       /\ (tunReader.pc = "backoff" /\ tunReader'.pc = "read")
            => PreviewStatus(tunCallback') = "reconnected"
       /\ (tunReader.pc = "backoff" /\ tunReader'.pc = "stopped" /\ ~tunClosed)
            => PreviewStatus(tunCallback') = "disconnected"]_vars

(***************************************************************************)
(* Claims about the agent's conversation handlers.                         *)
(***************************************************************************)

\* C1: every commit, discard and coder run happens in a folder that is in
\* the approved set at the instant of the operation; after the folder was
\* removed, an approval, diff_approved or reprompt does none of them.
C1_OperationsInApprovedFolder == lastOp.approved

\* C2: in approval-required mode, when a turn whose diff set is not empty
\* gets its complete event, every file of the diff set is approved.
C2_NoCompleteBeforeApprovals ==
    [][(~exec.turnCompleted /\ exec'.turnCompleted /\ turnDiff' # {})
         => \A f \in turnDiff' : pendingDiffs'[f] = "true"]_vars

\* C3: a diff_approved causes a commit only when every file of the turn's
\* diff set is approved.
C3_CommitAfterAllApprovals ==
    (lastOp.op = "commit" /\ lastOp.by = "diff_approved") => lastOp.unapproved = {}

\* C9: when a turn completes, its diff set is exactly the files changed
\* since the snapshot whose diff is not empty.
C9_DiffSetIsNonEmptyDelta ==
    [][(exec.pc = "running" /\ exec'.pc = "done")
         => turnDiff' = {f \in DetectChangedFiles \ exec.filesBeforeExec :
                            diffOf[f] # "empty"}]_vars

(***************************************************************************)
(* The dev-server manager's specification: two callers of Start for the    *)
(* folder of the preview, the children and their monitors.                 *)
(***************************************************************************)
NextDevServer ==
    \/ \E s \in Starters : StartLookup(s)
    \/ \E s \in Starters, inUse \in BOOLEAN, ok \in BOOLEAN : StartSpawn(s, inUse, ok)
    \/ \E s \in Starters : StartStore(s)
    \/ \E x \in Servers : childExits(x)
    \/ \E x \in Servers, failed \in BOOLEAN : monitorProcessWait(x, failed)
    \/ \E x \in Servers : monitorProcessDelete(x)
    \/ MarkRunning
    \/ Stop

SpecDevServer == Init /\ [][NextDevServer]_vars

\* C18: Start is reentry-safe: called for a folder whose server is starting
\* or running it spawns nothing and hands back that server, and however the
\* Start calls for the folder interleave, at most one child process is
\* alive for it.
C18_StartReentrySafe ==
    [][/\ \A s \in Starters :
            (dsStart[s].pc = "idle" /\ dsStart'[s] # dsStart[s] /\ ServerActive)
                => (dsChildren' = dsChildren /\ dsStart'[s].srv = dsEntry)
       /\ Cardinality(dsChildren') <= 1]_vars

(***************************************************************************)
(* Folder removal beside a preview: the removal handlers acting on PathA,  *)
(* the notify handler tailing its session log, one caller starting and     *)
(* stopping the dev server, and the tunnel of the preview.                 *)
(***************************************************************************)
NextCascade ==
    \/ handleFolderRemove(PathA)
    \/ \E id \in 1..MaxFolderId, saved \in BOOLEAN : handleFolderRemoveRequest(id, saved)
    \/ \E f \in LogFiles : AppendLog(f, "m")
    \/ \E f \in LogFiles : handleFileModified(f)
    \/ readNewLines("notify")
    \/ setPosition("notify")
    \/ StartLookup("pump1")
    \/ \E inUse \in BOOLEAN, ok \in BOOLEAN : StartSpawn("pump1", inUse, ok)
    \/ StartStore("pump1")
    \/ MarkRunning
    \/ Stop
    \/ \E ok \in BOOLEAN : tunnelConnect(ok)
    \/ tunnelClose

SpecCascade == Init /\ [][NextCascade]_vars

\* C19: removing an approved folder, by the tray or by a remote request,
\* cascades: after the removal the watcher holds no session, no offset and
\* no debounce timer for a log of that path, and no dev server and no tunnel
\* of that folder id is left.
C19_RemovalCascades ==
    [][(PreviewFolder \in ApprovedIds /\ PreviewFolder \notin ApprovedIds')
        => /\ \A f \in LogFiles :
                decodeProjectPath(LogDirOf(f)) = FolderPathOf(PreviewFolder)
                    => /\ ~sessions'[f].exists
                       /\ filePositions'[f] = -1
                       /\ updateTimers'[f] = 0
           /\ dsEntry' = 0
           /\ dsChildren' = {}
           /\ tunConn' = 0]_vars

(***************************************************************************)
(* The configuration's specification: a loaded configuration and any       *)
(* sequence of calls of its AddFolder, RemoveFolder, RemoveFolderByID and  *)
(* SelectFolder.                                                           *)
(***************************************************************************)
NextConfig ==
    \/ \E path \in ConfigPaths : callAddFolder(path)
    \/ \E path \in ConfigPaths : callRemoveFolder(path)
    \/ \E id \in ConfigIds : callRemoveFolderByID(id)
    \/ \E id \in ConfigIds : callSelectFolder(id)

InitConfig ==
    /\ InitLoaded /\ InitWatcher /\ InitCtl /\ InitTunnel /\ InitAgent /\ InitDev
    /\ InitPresence

SpecConfig == InitConfig /\ [][NextConfig]_vars

\* C20: from a configuration within the limit, whatever folders are added,
\* removed and selected, the approved folders never outnumber the
\* subscription's MaxFolders; and AddFolder of a new path, called at the
\* limit or with an inactive subscription, returns the limit error and
\* leaves the folders as they are.
C20_FolderLimit ==
    /\ Len(approvedFolders) <= subscription.MaxFolders
    /\ \A path \in ConfigPaths \ ApprovedPaths :
        (Len(approvedFolders) = subscription.MaxFolders \/ ~subscription.Active)
            => /\ AddFolderError(path) = "folder limit reached"
               /\ AddFolder(path) = approvedFolders

\* AddFolder of a new path was just refused at the limit of an active
\* subscription, after a folder was removed and another appended.
C20_Witness ==
    /\ cfgErr = "folder limit reached"
    /\ subscription.Active
    /\ Len(approvedFolders) = subscription.MaxFolders
    /\ nextFolderId > TierStandardMaxFolders + 1
    /\ ConfigPaths \ ApprovedPaths # {}

(***************************************************************************)
(* The tasks that use the conversation map, beside the handlers and the    *)
(* coder of one conversation.                                              *)
(***************************************************************************)
NextConvMap ==
    \/ \E id \in 1..MaxFolderId : handlePrompt(id)
    \/ handleCompletion
    \/ \E approved \in BOOLEAN : handleApproval(approved)
    \/ \E t \in Tasks, kind \in {"read", "write"} : mapEnter(t, kind)
    \/ \E t \in Tasks : mapLeave(t)

SpecConvMap == Init /\ [][NextConvMap]_vars

\* C21: the conversation map and the pending diffs of its conversations are
\* guarded by one mutex: no two tasks are inside an operation on them at the
\* same time.
C21_MapGuarded ==
    \A t, u \in Tasks : (mapUse[t] # "none" /\ mapUse[u] # "none") => t = u

(***************************************************************************)
(* Presence, the watcher's callbacks and the client's requests.            *)
(***************************************************************************)
NextPresence ==
    \/ \E d \in {"mobile", "web"}, online \in BOOLEAN : handlePresenceUpdate(d, online)
    \/ \E b \in Broadcasts : externalSessionCallback(b)
    \/ \E b \in Broadcasts : externalSessionSend(b)
    \/ \E r \in Requests : handleRequestMessage(r)

SpecPresence == Init /\ [][NextPresence]_vars

\* C22: no broadcast of the watcher is sent while the mobile and the web
\* client are both offline, and the answer to a client's request is sent
\* whatever the presence.
C22_BroadcastsNeedPresence ==
    /\ lastSent.msg \in Broadcasts => hasActiveClients
    /\ lastSent.req # "none" => lastSent.msg = "response"

\* C23: a rejection (approval with approved false) of a conversation whose
\* diff set awaits approval discards exactly the files of that diff set,
\* commits nothing and removes the conversation's state.  The files of the
\* diff set are the files with an entry in pendingDiffs, when every approved
\* entry is a file that a diff event entered.
C23_RejectDiscardsDiffSet ==
    [][(/\ PendingApproval
        /\ \A k \in ApprovalKeys : pendingDiffs[k] = "true" => k \in stFiles
        /\ handleApproval(FALSE))
        => /\ lastOp'.op = "discard"
           /\ stFiles = {f \in Files : pendingDiffs[f] # "absent"}
           /\ ~hasState']_vars

\* C24: when diff_approved approves the last outstanding file of a diff set,
\* the changes are committed and then commit_success and complete are sent,
\* in that order.
C24_LastApprovalCommitsAndReports ==
    [][\A k \in Files :
        (/\ hasState
         /\ pendingDiffs[k] = "false"
         /\ \A f \in Files \ {k} : pendingDiffs[f] # "false"
         /\ handleDiffApproved(k))
        => /\ lastOp'.op = "commit"
           /\ CommitSends(lastOp'.by) = <<"commit_success", "complete">>]_vars

\* The steps of the control channel that the scheduler and the clock ensure:
\* Close's own steps, a pump that observes its context or its socket, and a
\* connecting goroutine.  A message handler is given no fairness: it runs
\* git and the coder's handlers synchronously and without a deadline.
ShutdownFairness ==
    /\ WF_vars(closePumpCancel)
    /\ WF_vars(closeConn)
    /\ \A g \in 1..MaxGen :
          /\ WF_vars(\E pm \in pumps, seesCurrent \in BOOLEAN :
                       pm.id = g /\ readPumpLoop(pm, seesCurrent))
          /\ WF_vars(\E pm \in pumps : pm.id = g /\ readPumpError(pm))
          /\ WF_vars(\E pm \in pumps : pm.id = g /\ writePumpSelect(pm))
          /\ WF_vars(\E pm \in pumps : pm.id = g /\ writePumpPinged(pm))
    /\ \A p \in Connectors :
          WF_vars(\/ retryDelayOver(p) \/ connectLocked(p) \/ pumpsDrained(p)
                  \/ pumpsTimeout(p) \/ waitCancelled(p) \/ dialOk(p) \/ dialFails(p))
    /\ \A l \in LoopSlots : WF_vars(reconnectLoopReturns(l))

SpecShutdown == Init /\ [][NextControl]_vars /\ ShutdownFairness

\* C25: shutdown never deadlocks: once Close of the control channel has been
\* called, in whatever state the channel is, the call eventually returns.
C25_CloseReturns == (closePc = "lock") ~> (closePc = "done")

\* The conversation's handlers with the coder's output stream and the
\* reader tasks of the executors.
NextStream ==
    \/ \E f \in Files, kind \in {"text", "empty"} : fileChanges(f, kind)
    \/ \E id \in 1..MaxFolderId : handlePrompt(id)
    \/ handleCompletion
    \/ \E approved \in BOOLEAN : handleApproval(approved)
    \/ handleReprompt
    \/ \E m \in StreamMessages : handleStreamMessage(m)
    \/ streamEnds

SpecStream == Init /\ [][NextStream]_vars

\* C26: for a tool_use block named AskUserQuestion or ExitPlanMode a decision
\* event is sent and no tool_use event.
C26_ToolUseBecomesDecision ==
    [][\A m \in StreamMessages :
        (/\ m.type = "tool_use"
         /\ m.name \in {"AskUserQuestion", "ExitPlanMode"}
         /\ m.ok
         /\ handleStreamMessage(m))
        => /\ \E i \in DOMAIN emitted' : emitted'[i] = "decision"
           /\ \A i \in DOMAIN emitted' : emitted'[i] # "tool_use"]_vars

\* C27: an error message of the coder is forwarded as an error event and
\* ends the conversation: its state and its reader are removed, and nothing
\* the coder sends afterwards is forwarded.
C27_CoderErrorEndsConversation ==
    [][\A m \in StreamMessages :
        handleStreamMessage(m)
        => /\ m.type = "error"
              => (emitted' = <<"error">> /\ ~hasState' /\ ~curReader')
           /\ errored => emitted' = <<>>]_vars

\* C28: the events of a conversation are sent by a single reader task:
\* whenever the reader of the conversation's executor sends events, no
\* reader of an executor the conversation had before is running.
C28_SingleReader ==
    [][(curReader /\ emitted' # <<>>) => replaced = 0]_vars

\* The dev server of the preview folder with one caller of Start, the
\* child's exit, its monitor, and Stop step by step.
NextSupervisor ==
    \/ StartLookup("pump1")
    \/ \E inUse \in BOOLEAN, ok \in BOOLEAN : StartSpawn("pump1", inUse, ok)
    \/ StartStore("pump1")
    \/ \E x \in Servers : childExits(x)
    \/ \E x \in Servers, failed \in BOOLEAN : monitorProcessWait(x, failed)
    \/ \E x \in Servers : monitorProcessDelete(x)
    \/ MarkRunning
    \/ StopMark
    \/ StopCancel
    \/ \E x \in Servers : contextKill(x)
    \/ StopTerminate
    \/ StopDone
    \/ StopGraceOver
    \/ StopDelete

SpecSupervisor == Init /\ [][NextSupervisor]_vars

\* C29: when the child of a dev server exits with a non-zero status and no
\* stop was requested, the server being in state starting or running, the
\* monitor goes on to call the state-change callback with failed, once.
C29_FailureNotified ==
    [][\A x \in Servers :
        (dsState[x] \in {"starting", "running"} /\ monitorProcessWait(x, TRUE))
        => dsMon'[x] = "notifyFailed"]_vars

\* C30: on Stop a kill reaches the child only when the 5 seconds after the
\* terminate signal have passed and the child is still alive.
C30_KillAfterGrace ==
    [][\A x \in Servers :
        (dsOut'.kind = "signal" /\ dsOut'.what = "kill" /\ dsOut'.srv = x
            /\ x \in dsChildren /\ x \notin dsChildren')
        => StopGraceOver]_vars

\* C31: after a read error the tunnel makes at most 5 reconnection
\* attempts, attempt k after a wait of 1, 2, 4, 8, 16 seconds; the first
\* attempt that succeeds ends the sequence; after 5 failures in a row
\* disconnected is published once and the tunnel does not connect again.
C31_ReconnectSchedule ==
    [][/\ tunReader'.attempt <= 5
       /\ \A k \in 1..5 :
            (tunReader.pc = "backoff" /\ tunReader.attempt = k /\ ~tunClosed
                /\ tunReader' # tunReader)
            => /\ tunWaited' = 2 ^ (k - 1)
               /\ \/ tunReader' = [pc |-> "read", attempt |-> 0] /\ tunConn' \in tunLive'
                  \/ k < 5 /\ tunReader' = [pc |-> "backoff", attempt |-> k + 1]
                           /\ tunConn' = tunConn
                  \/ k = 5 /\ tunReader'.pc = "stopped" /\ tunConn' = tunConn
                           /\ tunCallback' = [state |-> "disconnected", attempt |-> 5]
       /\ tunReader.pc = "stopped"
            => (tunReader'.pc = "stopped" /\ tunLive' \subseteq tunLive
                /\ tunCallback'.state # "disconnected")]_vars

\* The tunnel has given up after its fifth failed attempt
C31_Witness ==
    /\ tunReader.pc = "stopped" /\ ~tunClosed
    /\ tunCallback = [state |-> "disconnected", attempt |-> 5]
    /\ tunWaited = 16

\* The control channel while the relay stays reachable: a dial fails only
\* because the client is shutting down.
NextReachable ==
    \/ ConnectWithRetry
    \/ \E p \in Connectors : retryDelayOver(p)
    \/ \E p \in Connectors : connectLocked(p)
    \/ \E p \in Connectors : pumpsDrained(p)
    \/ \E p \in Connectors : pumpsTimeout(p)
    \/ \E p \in Connectors : waitCancelled(p)
    \/ \E p \in Connectors : dialOk(p)
    \/ \E p \in Connectors : ctlClosed /\ dialFails(p)
    \/ \E l \in LoopSlots : reconnectLoopReturns(l)
    \/ \E pm \in pumps, seesCurrent \in BOOLEAN : readPumpLoop(pm, seesCurrent)
    \/ \E pm \in pumps : readPumpMessage(pm)
    \/ \E pm \in pumps : readPumpError(pm)
    \/ \E pm \in pumps : handlerReturns(pm)
    \/ \E pm \in pumps : writePumpSelect(pm)
    \/ \E pm \in pumps : writePumpPinged(pm)
    \/ connBreaks
    \/ closeCancel
    \/ closePumpCancel
    \/ closeConn

SpecReachable == Init /\ [][NextReachable]_vars /\ ShutdownFairness

\* The reader or the keepalive of the current connection has exited and the
\* client is not closed
PumpLost ==
    /\ ~ctlClosed /\ wsConn # 0
    /\ ~PumpRunning("read") \/ ~PumpRunning("write")

\* The channel is connected and both pumps of its connection run
ChannelUp == wsConn # 0 /\ connected /\ PumpRunning("read") /\ PumpRunning("write")

\* C32: whenever the reader or the keepalive of the current connection exits
\* while the client is not closed, the channel eventually becomes connected
\* again when the relay stays reachable (or the client is closed, or the
\* bound on connections is reached), also when the exit happens while an
\* earlier reconnect loop has connected and not yet cleared its flag.
C32_ExitLeadsToReconnect ==
    PumpLost ~> (ChannelUp \/ ctlClosed \/ pumpGen = MaxGen)

\* The coder child processes of the conversation that are alive: those of
\* the executors that were replaced while their process ran, and that of
\* the executor the agent holds (an interactive coder lives until its
\* output ends, a one-shot coder until its result).
LiveCoders ==
    replaced + (IF curReader \/ (exec.kind = "oneshot" /\ exec.pc = "running")
                THEN 1 ELSE 0)

\* C33: at most one coder child process is alive for the conversation id,
\* also after a second prompt or a reprompt for a conversation whose coder
\* runs.
C33_OneCoderPerConversation == LiveCoders <= 1

\* C34: every response to a tunnel request is written on the socket the
\* request was read from, never on the socket a later reconnect opened.
C34_ResponseOnRequestLink ==
    \A r \in 1..MaxReqs :
        \A i \in 1..Len(tunOut[r]) : tunOut[r][i].conn = tunRecv[r]

\* C35: a turn of an interactive coder emits at most one diff event and at
\* most one complete event: when the coder's output ends after the turn's
\* result was handled (which emitted the turn's complete event, and its
\* diff event if files changed), no further diff or complete event is
\* emitted.
C35_OneDiffOneCompletePerTurn ==
    [][(curReader /\ ~curReader' /\ exec.kind = "interactive" /\ exec.pc = "done")
          => \A i \in 1..Len(emitted') : emitted'[i] \notin {"diff", "complete"}]_vars

\* C36: every complete line of a tracked session log is applied to the
\* session's message count exactly once: the count never exceeds the number
\* of complete lines in the file, and once the recorded offset has reached
\* the end of the file with no read in progress the two are equal.
C36_EachLineAppliedOnce ==
    \A f \in LogFiles :
        (sessions[f].exists /\ filePositions[f] # -1)
        => /\ sessions[f].MessageCount <= parseSessionFile(logContent[f])
           /\ (filePositions[f] = Len(logContent[f])
                 /\ \A g \in Goroutines : rd[g].pc # "idle" => rd[g].file # f)
              => sessions[f].MessageCount = parseSessionFile(logContent[f])

\* C37: when Stop for the folder returns, the supervisor holds no entry in
\* state stopping for it and GetState reports stopped, also for a server
\* stored as running for a port in use, without a child.
C37_StoppedAfterStop ==
    [][(stopCall.pc # "idle" /\ stopCall'.pc = "idle")
          => /\ GetState' = "stopped"
             /\ ~(dsEntry' # 0 /\ dsState'[dsEntry'] = "stopping")]_vars

\* C38: after any sequence of AddFolder, RemoveFolder, RemoveFolderByID and
\* SelectFolder calls, the selected folder id is empty or the id of a
\* folder in the approved list.
C38_SelectedIsApproved ==
    selectedFolderID = 0 \/ selectedFolderID \in ApprovedIds

\* A folder added after the load is selected, and the first folder of the
\* loaded list has been removed while the second stays
C38_Witness ==
    /\ selectedFolderID > TierStandardMaxFolders
    /\ selectedFolderID \in ApprovedIds
    /\ 1 \notin ApprovedIds /\ 2 \in ApprovedIds

\* The preview tunnel with the reconnect's dial and Close taken step by
\* step, so that Close can run between the return of the dial and the
\* store of the new socket.
NextTunnelClose ==
    \/ \E ok \in BOOLEAN : tunnelConnect(ok)
    \/ relayWrites
    \/ \E m \in tunInbox : tunnelReadPump(m)
    \/ tunnelReadPumpReturns
    \/ tunnelReadError
    \/ \E ok \in BOOLEAN : handleDisconnectDial(ok)
    \/ connectInternalInstall
    \/ \E h \in tunHandlers, path \in HandlingPaths : handleRequest(h, path)
    \/ \E h \in tunHandlers : sendResponse(h)
    \/ tunnelBreaks
    \/ tunnelCloseCancel
    \/ tunnelCloseReturns

SpecTunnelClose == Init /\ [][NextTunnelClose]_vars

\* IsConnected: the conn field is not nil
IsConnected == tunConn # 0

\* C39: once Close of the tunnel has returned, the state is disconnected,
\* IsConnected is false and no socket of the tunnel is installed or open,
\* also when a reconnect attempt was running during Close.
C39_ClosedStaysDisconnected ==
    tunClosePc = "done"
        => (tunState = "disconnected" /\ ~IsConnected /\ tunLive = {})

(***************************************************************************)
(* The log-directory encoding over folder paths of every shape.            *)
(***************************************************************************)
\* The characters of a folder path: the separator, letters and the hyphen
PathChars == {"/", "a", "b", "-"}

\* Absolute, clean folder paths of at most MaxPathLen characters: a leading
\* separator, no empty component, no trailing separator
FolderPaths ==
    {q \in UNION {[1..n -> PathChars] : n \in 2..MaxPathLen} :
        /\ q[1] = "/" /\ q[Len(q)] # "/"
        /\ \A i \in 1..(Len(q) - 1) : ~(q[i] = "/" /\ q[i + 1] = "/")}

\* The agent starts with one approved folder, of any such path, and no
\* session log yet.
InitEncode ==
    /\ \E q \in FolderPaths : approvedFolders = <<[id |-> 1, path |-> q]>>
    /\ selectedFolderID = 0
    /\ subscription = [MaxFolders |-> TierStandardMaxFolders, Active |-> TRUE]
    /\ nextFolderId = 2
    /\ cfgErr = "nil"
    /\ logContent = [f \in LogFiles |-> <<>>]
    /\ fsEvents = {}
    /\ sessions = [f \in LogFiles |-> NoSession]
    /\ filePositions = [f \in LogFiles |-> -1]
    /\ pendingUpdates = {}
    /\ updateTimers = [f \in LogFiles |-> 0]
    /\ timers = {}
    /\ nextTimer = 1
    /\ rd = [g \in Goroutines |-> IdleRd]
    /\ pollPhase = "idle"
    /\ pollSnap = [f \in LogFiles |-> -1]
    /\ pollTodo = {}
    /\ sinceUpdate = [f \in LogFiles |-> UpdateDebounce]
    /\ droppedAt = [f \in LogFiles |-> -1]
    /\ InitCtl /\ InitTunnel /\ InitAgent /\ InitDev /\ InitPresence

\* The directory the coder keeps the session logs of the approved folder in
FolderLogDir == EncodeProjectPath(approvedFolders[1].path)

\* handleNewFile for log f of the approved folder: the directory name is
\* decoded and tested against ShouldWatchProject; a log that passes is
\* indexed at its current size.
handleNewFile(f) ==
    LET projectPath == decodeProjectPath(FolderLogDir)
    IN  IF ~sessions[f].exists /\ IsFolderApproved(projectPath)
        THEN /\ sessions' = [sessions EXCEPT ![f] =
                               [exists |-> TRUE, ProjectPath |-> projectPath,
                                MessageCount |-> parseSessionFile(logContent[f])]]
             /\ filePositions' = [filePositions EXCEPT ![f] = Len(logContent[f])]
        ELSE UNCHANGED <<sessions, filePositions>>

\* The notify producer: fsnotifyLoop takes the event of a log that is not
\* tracked and calls handleNewFile.
notifyNewFile(f) ==
    /\ f \in fsEvents
    /\ filePositions[f] = -1
    /\ fsEvents' = fsEvents \ {f}
    /\ handleNewFile(f)
    /\ UNCHANGED <<cfgVars, logContent, pendingUpdates, updateTimers, timers, nextTimer,
                   rd, pollVars, obsWatcherVars, notWatcher>>

\* The poll producer: scanForNewSessions finds a log without a session and
\* calls handleNewFile.
scanNewFile(f) ==
    /\ logContent[f] # <<>>
    /\ ~sessions[f].exists
    /\ handleNewFile(f)
    /\ UNCHANGED <<cfgVars, fsVars, pendingUpdates, updateTimers, timers, nextTimer,
                   rd, pollVars, obsWatcherVars, notWatcher>>

NextEncode ==
    \/ \E f \in LogFiles, b \in {"m", "c", "nl"} : AppendLog(f, b)
    \/ \E f \in LogFiles : notifyNewFile(f)
    \/ \E f \in LogFiles : scanNewFile(f)

SpecEncode == InitEncode /\ [][NextEncode]_vars

\* C40: for every approved folder path, decoding the encoded log-directory
\* name gives the path back, so the folder's logs pass the
\* ShouldWatchProject filter; also for a path that contains '-'.
C40_DecodeInvertsEncode ==
    \A fo \in Range(approvedFolders) :
        /\ decodeProjectPath(EncodeProjectPath(fo.path)) = fo.path
        /\ IsFolderApproved(decodeProjectPath(EncodeProjectPath(fo.path)))

\* C13: a choice, reprompt, diff_approved or approval message never makes
\* the coder of the conversation stream events while a diff set of the
\* conversation awaits approval.
C13_NoStreamingWhilePending ==
    [][(lastOp'.by \in {"choice", "reprompt", "diff_approved", "approval"}
          /\ exec.pc # "running")
         => ~(PendingApproval' /\ exec'.pc = "running")]_vars

====
